---- MODULE Spec2Model ----
(***************************************************************************)
(* The concurrent download-and-extract pipeline of index-wrapper           *)
(* (src/app/main.py, src/app/services/downloader.py).                      *)
(*                                                                         *)
(* The main thread runs analyze_and_download / handle_tasks; one worker    *)
(* thread per dequeued URL runs download_and_process_file, which calls     *)
(* _download_file; SIGINT runs handle_exit in the main thread.             *)
(*                                                                         *)
(* A URL is an index 1..NumUrls; its worker thread, its local file name    *)
(* and its download path are identified with that index. File contents are *)
(* sequences of bytes.                                                     *)
(***************************************************************************)
EXTENDS Integers, Sequences, FiniteSets, TLC

(* ------------------------------ bounds -------------------------------- *)
\* number of URLs the link discovery returned
NumUrls == 3
\* largest value of --simultaneous that is explored
MaxConc == 2
\* largest remote file, in bytes
MaxSize == 2
\* bytes per chunk delivered by iter_content (65536 in the code, scaled)
ChunkSize == 1
\* transient faults (network / I/O errors) the environment injects in a pipeline run
MaxFaults == 1
\* value of --limit explored besides "no limit"
BatchLimit == 2
\* invocations of the transfer on the same destination path
MaxRuns == 2

(* ------------------------- program constants -------------------------- *)
\* _download_file(..., max_retries: int = 3)
max_retries == 3
\* progress is updated every 16 chunks
ProgressEvery == 16
\* additional cancellation check every 64 chunks
ExtraCheckEvery == 64
\* len(passwords) in obtain_password
NumPasswords == 18

Urls == 1..NumUrls
\* a remote file of n bytes: byte i has value i, so that a byte that is lost,
\* repeated or misplaced shows in the content (the code never looks at values)
Content(n) == [i \in 1..n |-> i]
\* marks a path with no file (no byte is negative)
NoFile == <<-1>>

VARIABLES
    \* configuration / environment, fixed by Init
    c,                \* args.simultaneous
    files_limit,      \* args.limit (0 = None)
    remote,           \* remote[u]: content served for URL u
    honoursRange,     \* the server answers a Range request with 206 + content-range
    sendsLength,      \* the server sends content-length on GET
    fname,            \* fname[u]: last path segment of URL u
    delete_after,     \* args.delete_after
    arch,             \* arch[n][i]: what the archiver does with the archive of
                      \* n bytes and candidate password i
    undeletable,      \* paths on which os.remove fails
    disk0,            \* the disk when the program started
    upload,           \* args.upload
    filter_range,     \* args.filter, a string (<<>> = None)
    legacy,           \* the earlier revision of the program (src/main.py,
                      \* src/services/downloader.py) is the one that runs
    \* main thread
    mpc,              \* position of the main thread
    links,            \* URLs not yet sliced into a batch
    queue,            \* download_queue
    tasks,            \* handle_tasks' local list of threads
    active_threads,   \* global list of every thread started
    jIdx,             \* index of the thread being joined
    part_files,       \* the batch's part-file table (file names = URL indices)
    stop,             \* stop_event
    clTodo,           \* cleanup_partial_files: entries not yet visited
    clSize,           \* cleanup_partial_files: dict size when iteration began
    \* shared between threads
    sem,              \* semaphore._value
    active_downloads, \* path -> expected size
    disk,             \* path -> content, or NoFile
    unlinked,         \* workers whose open file was removed under them
    extracted,        \* paths handed to _process_rar_file, with size at that time
    faults,           \* faults the environment may still inject
    \* worker threads
    wpc,              \* position of worker u
    attempt,          \* loop variable of _download_file
    dsize,            \* downloaded_size
    total,            \* total_size
    body,             \* bytes of the response not yet delivered
    chunk_count,      \* chunk_count
    wres,             \* how _download_file ended: none / ok / cancel / raised
    waits,            \* the backoff waits performed, in order
    \* history
    failures,         \* errors raised inside the attempt loop
    nAttempts,        \* attempts begun
    treated,          \* file size and expected size when the worker routed the file
    stopTracked,      \* active_downloads at the moment the stop flag was set
    observed,         \* the transfer has seen the stop flag set
    resumed,          \* the resume offset of the latest attempt
    run,              \* number of the transfer invocation (SpecTransfer)
    \* extraction
    store,            \* rows of the rar_files table: <<filename, hash, password>>
    pTodo,            \* process_part_files: first volumes not yet processed
    inv,              \* inv[p]: passwords handed to the archiver for archive p, in order
    saved,            \* saved[p]: rows inserted while extracting archive p
    xcache,           \* xcache[p]: none / miss / accepted / rejected (cached password)
    xres,             \* xres[p]: none / cached / brute / nopass / failed / error
    \* progress display
    series,           \* completed of the batch's series task
    \* batches
    sliced,           \* the batches sliced from links so far, in order
    uploads           \* calls of upload_file that have returned

cfgVars == <<c, files_limit, remote, honoursRange, sendsLength,
             fname, delete_after, arch, undeletable, disk0, upload,
             filter_range, legacy>>
mainVars == <<mpc, links, queue, tasks, active_threads, jIdx, part_files, stop, clTodo, clSize>>
sharedVars == <<sem, active_downloads, disk, unlinked, extracted, faults>>
workerVars == <<wpc, attempt, dsize, total, body, chunk_count, wres, waits>>
histVars == <<failures, nAttempts, treated, stopTracked, observed, resumed, run>>
xVars == <<store, pTodo, inv, saved, xcache, xres>>
progVars == <<series>>
batchVars == <<sliced, uploads>>
vars == <<cfgVars, mainVars, sharedVars, workerVars, histVars, xVars, progVars, batchVars>>

(* ------------------------------ helpers -------------------------------- *)
Min(a, b) == IF a < b THEN a ELSE b

RECURSIVE Pow2(_)
Pow2(n) == IF n = 0 THEN 1 ELSE 2 * Pow2(n - 1)

Take(s, n) == SubSeq(s, 1, Min(n, Len(s)))
Drop(s, n) == SubSeq(s, Min(n, Len(s)) + 1, Len(s))

exists(p) == disk[p] # NoFile
getsize(p) == Len(disk[p])

\* the threads of a list that are still alive
is_alive(u) == wpc[u] \notin {"unstarted", "dead"}

RECURSIVE SelectAlive(_)
SelectAlive(s) ==
    IF s = <<>> THEN <<>>
    ELSE IF is_alive(Head(s)) THEN <<Head(s)>> \o SelectAlive(Tail(s))
    ELSE SelectAlive(Tail(s))

\* the process is running: worker (daemon) threads die with it
ProcessAlive == mpc \notin {"exited", "crashed"}

\* file names: the last path segment of each URL
FileNames ==
    <<  <<"m", ".", "p", "a", "r", "t", "1", ".", "r", "a", "r">>,
        <<"s", ".", "r", "a", "r">>,
        <<"m", ".", "p", "a", "r", "t", "2", ".", "r", "a", "r">> >>
\* the names of the links the program is run on by default
DefaultNames ==
    [u \in Urls |-> IF u \in DOMAIN FileNames THEN FileNames[u]
                    ELSE <<"v", ".", "m", "k", "v">>]
local_filename(u) == fname[u]

Digits == {"0", "1", "2", "3", "4", "5", "6", "7", "8", "9"}
EndsWith(s, suf) ==
    /\ Len(s) >= Len(suf)
    /\ SubSeq(s, Len(s) - Len(suf) + 1, Len(s)) = suf

\* the line feed
LF == "\n"

\* where "$" of a pattern compiled without re.MULTILINE matches: at the end of
\* the string and just before a line feed that ends the string; the strings
\* a pattern "...$" with no line feed in it is matched against
UpToDollar(name) ==
    IF name # <<>> /\ name[Len(name)] = LF
    THEN {name, SubSeq(name, 1, Len(name) - 1)}
    ELSE {name}

\* the index digits is_parted accepts: (?:\d{2}|\d)
IndexLengths == {1, 2}

\* r"\.part(?:\d{2}|\d)\.rar$|\.parte(?:\d{2}|\d)\.rar$", re.search
is_parted(name) ==
    \E s \in UpToDollar(name) :
        /\ EndsWith(s, <<".", "r", "a", "r">>)
        /\ LET stem == SubSeq(s, 1, Len(s) - 4)
           IN \E nd \in IndexLengths :
                /\ Len(stem) >= nd
                /\ \A i \in (Len(stem) - nd + 1)..Len(stem) : stem[i] \in Digits
                /\ LET pre == SubSeq(stem, 1, Len(stem) - nd)
                   IN \/ EndsWith(pre, <<".", "p", "a", "r", "t">>)
                      \/ EndsWith(pre, <<".", "p", "a", "r", "t", "e">>)

is_rar(name) == EndsWith(name, <<".", "r", "a", "r">>)

(* -------------------------- extraction engine -------------------------- *)
\* the candidate list of obtain_password, by position
passwords == 1..NumPasswords

\* archives by what the archiver answers to each candidate: "ok", "wrong"
\* (patoolib.util.PatoolError) or "error" (any other exception)
Rejects == [i \in passwords |-> "wrong"]
Broken == [i \in passwords |-> "error"]
Opens(k) == [i \in passwords |-> IF i = k THEN "ok" ELSE "wrong"]
OpensTwice(k, l) ==
    [i \in passwords |-> IF i \in {k, l} THEN "ok" ELSE IF i < k THEN "error" ELSE "wrong"]

\* patoolib.extract_archive / test_archive run on a file with a password: a
\* file that is not one of the archives served (cut short, or with bytes
\* repeated) opens with no password
archiver(content, pw) ==
    IF /\ Len(content) \in DOMAIN arch
       /\ content = Content(Len(content))
       /\ pw \in passwords
    THEN arch[Len(content)][pw]
    ELSE "wrong"

\* a key made of the file's name
hash_of_name(p) == local_filename(p)

\* get_hash_md5: the digest stands for the content it was computed from
get_hash_md5(p) == disk[p]

\* get_password_from_database: the passwords of the rows with this hash; the
\* query has no ORDER BY, data.data[0] is any of them (DB_TYPE is "Supabase")
get_password_from_database(h) == {store[i][3] : i \in {j \in 1..Len(store) : store[j][2] = h}}

\* nothing inserted
save_nothing(filename, h, password) == store

\* save_password_to_database: one row inserted
save_password_to_database(filename, h, password) == Append(store, <<filename, h, password>>)

\* only a wrong password makes the search go on
TryNextOnlyWrong(outcome) == outcome = "wrong"

\* except patoolib.util.PatoolError: continue / except Exception: continue
TryNext(outcome) == outcome # "ok"

\* obtain_password from candidate i on: the password found (0 = None) and the
\* candidates handed to the archiver, in order
RECURSIVE BruteForce(_, _)
BruteForce(content, i) ==
    IF i > NumPasswords THEN [password |-> 0, tried |-> <<>>]
    ELSE IF archiver(content, i) = "ok" THEN [password |-> i, tried |-> <<i>>]
    ELSE IF TryNext(archiver(content, i))
         THEN LET r == BruteForce(content, i + 1)
              IN [password |-> r.password, tried |-> <<i>> \o r.tried]
         ELSE [password |-> 0, tried |-> <<i>>]

obtain_password(content) == BruteForce(content, 1)

\* os.remove(path)
Removed(p) == [disk EXCEPT ![p] = NoFile]

(* ------------------- worker: download_and_process_file ----------------- *)
\* the worker goes on to its download whatever the flag says
AfterAcquireNoTest == IF legacy THEN "attempt" ELSE "head"

\* try: if stop_event.is_set(): return (to the finally that releases); else
\* the HEAD request, which the earlier revision does not make
AfterAcquire == IF stop THEN "release" ELSE IF legacy THEN "attempt" ELSE "head"

\* semaphore.acquire(); try: if stop_event.is_set(): return
W_Acquire(u) ==
    /\ ProcessAlive
    /\ wpc[u] = "acquire"
    /\ sem > 0
    /\ sem' = sem - 1
    /\ wpc' = [wpc EXCEPT ![u] = AfterAcquire]
    /\ UNCHANGED <<cfgVars, mainVars, histVars>>
    /\ UNCHANGED <<active_downloads, disk, unlinked, extracted, faults>>
    /\ UNCHANGED <<attempt, dsize, total, body, chunk_count, wres, waits>>
    /\ UNCHANGED xVars
    /\ UNCHANGED <<progVars, batchVars>>

\* expected_size = int(response.headers.get('content-length', 0)), or 0 when
\* the HEAD request raised
expected_size(u, failed) == IF failed \/ ~sendsLength THEN 0 ELSE Len(remote[u])

\* requests.head(...); active_downloads[download_path] = expected_size
W_Head(u) ==
    /\ ProcessAlive
    /\ wpc[u] = "head"
    /\ \E failed \in (IF faults > 0 THEN BOOLEAN ELSE {FALSE}) :
        /\ active_downloads' =
                [p \in DOMAIN active_downloads \cup {u} |->
                    IF p = u THEN expected_size(u, failed) ELSE active_downloads[p]]
        /\ faults' = IF failed THEN faults - 1 ELSE faults
    /\ wpc' = [wpc EXCEPT ![u] = "attempt"]
    /\ attempt' = [attempt EXCEPT ![u] = 0]
    /\ UNCHANGED <<cfgVars, mainVars, histVars>>
    /\ UNCHANGED <<sem, disk, unlinked, extracted>>
    /\ UNCHANGED <<dsize, total, body, chunk_count, wres, waits>>
    /\ UNCHANGED xVars
    /\ UNCHANGED <<progVars, batchVars>>

(* --------------------------- _download_file ---------------------------- *)
\* gives up one attempt early
RetryAllowedOneLess(a) == a < max_retries - 1

\* if attempt < max_retries
RetryAllowed(a) == a < max_retries

\* a linear backoff
wait_time_linear(a) == a + 1

\* wait_time = 2 ** attempt
wait_time(a) == Pow2(a)

\* except (RequestException, ..., OSError) as e: time.sleep(wait_time) and go
\* round the loop again, or raise e out of _download_file
OnError(u) ==
    /\ failures' = [failures EXCEPT ![u] = @ + 1]
    /\ IF ~legacy /\ RetryAllowed(attempt[u])
       THEN /\ waits' = [waits EXCEPT ![u] = Append(@, wait_time(attempt[u]))]
            /\ attempt' = [attempt EXCEPT ![u] = @ + 1]
            /\ wpc' = [wpc EXCEPT ![u] = "attempt"]
            /\ wres' = wres
       ELSE /\ wres' = [wres EXCEPT ![u] = "raised"]
            /\ wpc' = [wpc EXCEPT ![u] = "pop"]
            /\ UNCHANGED <<waits, attempt>>

\* downloaded_size = os.path.getsize(download_path) if it exists, else 0
resume_offset(p) == IF exists(p) THEN getsize(p) ELSE 0

\* the server's answer to GET with "Range: bytes=k-" (sent when k > 0)
Respond(u, k) ==
    LET n == Len(remote[u])
    IN IF k > 0 /\ honoursRange
       THEN IF k >= n
            THEN [status |-> 416, range_total |-> -1, length |-> -1, data |-> <<>>]
            ELSE [status |-> 206, range_total |-> n, length |-> n - k,
                  data |-> Drop(remote[u], k)]
       ELSE [status |-> 200, range_total |-> -1,
             length |-> IF sendsLength THEN n ELSE -1, data |-> remote[u]]

\* total_size: from content-range when present, else content-length + offset
TotalSize(r, k) ==
    IF r.range_total >= 0 THEN r.range_total
    ELSE (IF r.length >= 0 THEN r.length ELSE 0) + k

\* one pass of "for attempt in range(max_retries + 1)" up to the response:
\* resume offset, requests.get(...), r.raise_for_status(), total_size
W_Request(u) ==
    /\ ProcessAlive
    /\ wpc[u] = "attempt"
    /\ nAttempts' = [nAttempts EXCEPT ![u] = @ + 1]
    /\ \E failed \in (IF faults > 0 THEN BOOLEAN ELSE {FALSE}) :
        LET k == IF legacy THEN 0 ELSE resume_offset(u)
            r == Respond(u, k)
        IN /\ dsize' = [dsize EXCEPT ![u] = k]
           /\ resumed' = [resumed EXCEPT ![u] = k]
           /\ faults' = IF failed THEN faults - 1 ELSE faults
           /\ IF failed \/ r.status >= 400
              THEN /\ OnError(u)
                   /\ UNCHANGED <<total, body>>
              ELSE /\ total' = [total EXCEPT ![u] = TotalSize(r, k)]
                   /\ body' = [body EXCEPT ![u] = r.data]
                   /\ wpc' = [wpc EXCEPT ![u] = "open"]
                   /\ UNCHANGED <<failures, attempt, wres, waits>>
    /\ UNCHANGED <<cfgVars, mainVars>>
    /\ UNCHANGED <<sem, active_downloads, disk, unlinked, extracted>>
    /\ UNCHANGED <<chunk_count>>
    /\ UNCHANGED <<treated, stopTracked, observed, run>>
    /\ UNCHANGED xVars
    /\ UNCHANGED <<progVars, batchVars>>

\* always truncating
file_mode_truncate(k) == "wb"

\* file_mode = "ab" if downloaded_size > 0 else "wb"
file_mode(k) == IF k > 0 THEN "ab" ELSE "wb"

\* the file's content right after open(download_path, mode)
Opened(p, mode) == IF mode = "ab" /\ exists(p) THEN disk[p] ELSE <<>>

\* with open(download_path, file_mode) as f: chunk_count = 0
W_Open(u) ==
    /\ ProcessAlive
    /\ wpc[u] = "open"
    /\ disk' = [disk EXCEPT ![u] =
            Opened(u, IF legacy THEN "wb" ELSE file_mode(dsize[u]))]
    /\ unlinked' = unlinked \ {u}
    /\ chunk_count' = [chunk_count EXCEPT ![u] = 0]
    /\ wpc' = [wpc EXCEPT ![u] = "stream"]
    /\ UNCHANGED <<cfgVars, mainVars, histVars>>
    /\ UNCHANGED <<sem, active_downloads, extracted, faults>>
    /\ UNCHANGED <<attempt, dsize, total, body, wres, waits>>
    /\ UNCHANGED xVars
    /\ UNCHANGED <<progVars, batchVars>>

\* if chunk_count % 16 == 0:
UpdateDue(count) == count % ProgressEvery = 0

\* progress.update(series_task, advance=len(chunk) * 16)
advance(chunk) == Len(chunk) * ProgressEvery

\* no test on the chunk just received (only the one every 64 chunks)
CancelNotTested == FALSE

\* the cancellation test made on the chunk just received
CancelSeen == stop

\* the file after f.write(chunk); a file removed under the writer stays removed
Written(u, chunk) ==
    IF u \in unlinked \/ ~exists(u) THEN disk ELSE [disk EXCEPT ![u] = @ \o chunk]

\* one turn of "for chunk in r.iter_content(chunk_size=65536)": the stream
\* breaks (error), or is exhausted (download completed, return), or a chunk
\* arrives: if stop_event.is_set(): return; else f.write(chunk) ...
W_Stream(u) ==
    /\ ProcessAlive
    /\ wpc[u] = "stream"
    /\ \E failed \in (IF faults > 0 THEN BOOLEAN ELSE {FALSE}) :
        /\ faults' = IF failed THEN faults - 1 ELSE faults
        /\ IF failed
           THEN /\ OnError(u)
                /\ UNCHANGED <<disk, dsize, body, chunk_count, observed, series>>
           ELSE /\ UNCHANGED <<failures, attempt, waits>>
                /\ IF body[u] = <<>>
                   THEN /\ wres' = [wres EXCEPT ![u] = "ok"]
                        /\ wpc' = [wpc EXCEPT ![u] = "route"]
                        /\ UNCHANGED <<disk, dsize, body, chunk_count, observed, series>>
                   ELSE IF CancelSeen
                   THEN /\ observed' = observed \cup {u}
                        /\ wres' = [wres EXCEPT ![u] = "cancel"]
                        /\ wpc' = [wpc EXCEPT ![u] = "route"]
                        /\ UNCHANGED <<disk, dsize, body, chunk_count, series>>
                   ELSE LET chunk == Take(body[u], ChunkSize)
                            count == chunk_count[u] + 1
                        IN /\ disk' = Written(u, chunk)
                           /\ series' = IF legacy THEN series + Len(chunk)
                                        ELSE IF UpdateDue(count)
                                        THEN series + advance(chunk) ELSE series
                           /\ dsize' = [dsize EXCEPT ![u] = @ + Len(chunk)]
                           /\ body' = [body EXCEPT ![u] = Drop(@, ChunkSize)]
                           /\ chunk_count' = [chunk_count EXCEPT ![u] = count]
                           /\ IF ~legacy /\ count % ExtraCheckEvery = 0 /\ stop
                              THEN /\ observed' = observed \cup {u}
                                   /\ wres' = [wres EXCEPT ![u] = "cancel"]
                                   /\ wpc' = [wpc EXCEPT ![u] = "route"]
                              ELSE /\ wpc' = [wpc EXCEPT ![u] = "stream"]
                                   /\ UNCHANGED <<observed, wres>>
    /\ UNCHANGED <<cfgVars, mainVars>>
    /\ UNCHANGED <<sem, active_downloads, unlinked, extracted>>
    /\ UNCHANGED <<total>>
    /\ UNCHANGED <<nAttempts, treated, stopTracked, resumed, run>>
    /\ UNCHANGED xVars
    /\ UNCHANGED batchVars

(* ------------- worker, after _download_file returned normally ---------- *)
\* the table replaced by one that holds the new entry alone
InsertedAlone(parts, u) == {u}

\* part_files[local_filename] = download_path: one dict store, the other
\* entries are kept
Inserted(parts, u) == parts \cup {u}

\* if is_parted(local_filename): part_files[...] = download_path
\* elif local_filename.endswith(".rar"): _process_rar_file(...)
W_Route(u) ==
    /\ ProcessAlive
    /\ wpc[u] = "route"
    /\ treated' = [treated EXCEPT ![u] =
            <<IF exists(u) THEN getsize(u) ELSE 0,
              IF u \in DOMAIN active_downloads THEN active_downloads[u] ELSE 0>>]
    /\ IF is_parted(local_filename(u))
       THEN /\ part_files' = Inserted(part_files, u)
            /\ wpc' = [wpc EXCEPT ![u] = "pop"]
       ELSE /\ part_files' = part_files
            /\ wpc' = [wpc EXCEPT ![u] =
                    IF is_rar(local_filename(u)) THEN "extract" ELSE "pop"]
    /\ UNCHANGED <<cfgVars, sharedVars>>
    /\ UNCHANGED <<mpc, links, queue, tasks, active_threads, jIdx, stop, clTodo, clSize>>
    /\ UNCHANGED <<attempt, dsize, total, body, chunk_count, wres, waits>>
    /\ UNCHANGED <<failures, nAttempts, stopTracked, observed, resumed, run>>
    /\ UNCHANGED xVars
    /\ UNCHANGED <<progVars, batchVars>>

\* if delete_after: os.remove(file_path), a failure caught and reported
RemovedAfter(p) == IF delete_after /\ p \notin undeletable THEN Removed(p) ELSE disk

\* _process_rar_file, first half: the archive is hashed (a missing file makes
\* get_hash_md5 raise), the store is asked for its password and a password
\* found there is tried
W_Extract(u) ==
    /\ ProcessAlive
    /\ wpc[u] = "extract"
    /\ IF ~exists(u)
       THEN /\ wpc' = [wpc EXCEPT ![u] = "pop"]
            /\ xres' = [xres EXCEPT ![u] = "error"]
            /\ UNCHANGED <<extracted, inv, xcache, disk>>
       ELSE /\ extracted' = extracted \cup {<<u, getsize(u)>>}
            /\ LET cached == get_password_from_database(get_hash_md5(u))
               IN IF cached = {}
                  THEN /\ xcache' = [xcache EXCEPT ![u] = "miss"]
                       /\ inv' = [inv EXCEPT ![u] = <<>>]
                       /\ wpc' = [wpc EXCEPT ![u] = "brute"]
                       /\ UNCHANGED <<xres, disk>>
                  ELSE \E password \in cached :
                       /\ inv' = [inv EXCEPT ![u] = <<password>>]
                       /\ IF archiver(disk[u], password) = "ok"
                          THEN /\ xcache' = [xcache EXCEPT ![u] = "accepted"]
                               /\ xres' = [xres EXCEPT ![u] = "cached"]
                               /\ disk' = RemovedAfter(u)
                               /\ wpc' = [wpc EXCEPT ![u] = "pop"]
                          ELSE /\ xcache' = [xcache EXCEPT ![u] = "rejected"]
                               /\ wpc' = [wpc EXCEPT ![u] = "brute"]
                               /\ UNCHANGED <<xres, disk>>
    /\ UNCHANGED <<cfgVars, mainVars, histVars>>
    /\ UNCHANGED <<sem, active_downloads, unlinked, faults>>
    /\ UNCHANGED <<attempt, dsize, total, body, chunk_count, wres, waits>>
    /\ UNCHANGED <<store, pTodo, saved>>
    /\ UNCHANGED <<progVars, batchVars>>

\* _process_rar_file, second half: obtain_password(file_path, output_path),
\* the password found is saved; nothing found: return without deleting
W_Brute(u) ==
    /\ ProcessAlive
    /\ wpc[u] = "brute"
    /\ LET r == obtain_password(disk[u])
       IN /\ inv' = [inv EXCEPT ![u] = @ \o r.tried]
          /\ IF r.password # 0
             THEN /\ store' = save_password_to_database(local_filename(u), get_hash_md5(u), r.password)
                  /\ saved' = [saved EXCEPT ![u] = @ + 1]
                  /\ xres' = [xres EXCEPT ![u] = "brute"]
                  /\ disk' = RemovedAfter(u)
             ELSE /\ xres' = [xres EXCEPT ![u] = "nopass"]
                  /\ UNCHANGED <<store, saved, disk>>
    /\ wpc' = [wpc EXCEPT ![u] = "pop"]
    /\ UNCHANGED <<cfgVars, mainVars, histVars>>
    /\ UNCHANGED <<sem, active_downloads, unlinked, extracted, faults>>
    /\ UNCHANGED <<attempt, dsize, total, body, chunk_count, wres, waits>>
    /\ UNCHANGED <<pTodo, xcache>>
    /\ UNCHANGED <<progVars, batchVars>>

\* finally: active_downloads.pop(download_path, None)
W_Pop(u) ==
    /\ ProcessAlive
    /\ wpc[u] = "pop"
    /\ active_downloads' = [p \in DOMAIN active_downloads \ {u} |-> active_downloads[p]]
    /\ wpc' = [wpc EXCEPT ![u] = "release"]
    /\ UNCHANGED <<cfgVars, mainVars, histVars>>
    /\ UNCHANGED <<sem, disk, unlinked, extracted, faults>>
    /\ UNCHANGED <<attempt, dsize, total, body, chunk_count, wres, waits>>
    /\ UNCHANGED xVars
    /\ UNCHANGED <<progVars, batchVars>>

\* the permit is kept
release_skipped(value) == value

\* semaphore.release(): the counter of free permits goes up by one
release(value) == value + 1

\* finally: progress.update(task, visible=False); semaphore.release(); the
\* thread ends and its local variables with it
W_Release(u) ==
    /\ ProcessAlive
    /\ wpc[u] = "release"
    /\ sem' = release(sem)
    /\ wpc' = [wpc EXCEPT ![u] = "dead"]
    /\ attempt' = [attempt EXCEPT ![u] = 0]
    /\ dsize' = [dsize EXCEPT ![u] = 0]
    /\ total' = [total EXCEPT ![u] = 0]
    /\ body' = [body EXCEPT ![u] = <<>>]
    /\ chunk_count' = [chunk_count EXCEPT ![u] = 0]
    /\ UNCHANGED <<cfgVars, mainVars, histVars>>
    /\ UNCHANGED <<active_downloads, disk, unlinked, extracted, faults>>
    /\ UNCHANGED <<wres, waits>>
    /\ UNCHANGED xVars
    /\ UNCHANGED <<progVars, batchVars>>

Worker(u) ==
    \/ W_Acquire(u) \/ W_Head(u)
    \/ W_Request(u) \/ W_Open(u) \/ W_Stream(u)
    \/ W_Route(u) \/ W_Extract(u) \/ W_Brute(u) \/ W_Pop(u) \/ W_Release(u)

(* ------------------ main thread: analyze_and_download ------------------ *)
\* a limit one above the configured one
simultaneous_downloads_plus_one == c + 1

\* analyze_and_download(simultaneous_downloads=args.simultaneous): the value
\* given to Semaphore(...) and, as max_simultaneous, to handle_tasks
simultaneous_downloads == c

\* filter_value.strip(): blanks at both ends removed
RECURSIVE LStrip(_)
LStrip(str) == IF str # <<>> /\ Head(str) = " " THEN LStrip(Tail(str)) ELSE str
RECURSIVE RStrip(_)
RStrip(str) ==
    IF str # <<>> /\ str[Len(str)] = " " THEN RStrip(SubSeq(str, 1, Len(str) - 1)) ELSE str
strip(str) == RStrip(LStrip(str))

\* \d+
IsNumber(str) == str # <<>> /\ \A i \in 1..Len(str) : str[i] \in Digits

\* int(...) of a string of digits
DigitValue(ch) ==
    CHOOSE n \in 0..9 : <<"0", "1", "2", "3", "4", "5", "6", "7", "8", "9">>[n + 1] = ch
RECURSIVE int(_)
int(str) ==
    IF str = <<>> THEN 0
    ELSE 10 * int(SubSeq(str, 1, Len(str) - 1)) + DigitValue(str[Len(str)])

\* re.match(r"^(\d+)-(\d+)$", filter_value.strip()): the place of the "-"
\* between two numbers, {} when there is no match ("$" also matches before a
\* final line feed, which strip() has removed)
MatchAt(str) ==
    {i \in 1..Len(str) :
        /\ str[i] = "-"
        /\ IsNumber(SubSeq(str, 1, i - 1))
        /\ IsNumber(SubSeq(str, i + 1, Len(str)))}

\* parse_filter_range: [ok, start, end]; ok is FALSE where ValueError is raised
parse_filter_range(filter_value) ==
    LET str == strip(filter_value)
    IN IF MatchAt(str) = {}
       THEN [ok |-> FALSE, start |-> 0, end |-> 0]
       ELSE LET i == CHOOSE j \in MatchAt(str) : TRUE
                start == int(SubSeq(str, 1, i - 1))
                end == int(SubSeq(str, i + 1, Len(str)))
            IN [ok |-> ~(start > end), start |-> start, end |-> end]

\* ls[a:b], with a negative index counted from the end
slice(ls, a, b) ==
    LET n == Len(ls)
        lo == IF a < 0 THEN (IF a + n < 0 THEN 0 ELSE a + n) ELSE Min(a, n)
        hi == IF b < 0 THEN (IF b + n < 0 THEN 0 ELSE b + n) ELSE Min(b, n)
    IN SubSeq(ls, lo + 1, hi)

\* links = links[start - 1 : end]
filter_links(ls, start, end) == slice(ls, start - 1, end)

\* "if filter_range:" parse it and slice links, or report the error and return
M_Filter ==
    /\ mpc = "filter"
    /\ IF filter_range = <<>>
       THEN mpc' = "batch" /\ links' = links
       ELSE LET r == parse_filter_range(filter_range)
            IN IF r.ok
               THEN mpc' = "batch" /\ links' = filter_links(links, r.start, r.end)
               ELSE mpc' = "done" /\ links' = links
    /\ UNCHANGED <<queue, tasks, active_threads, jIdx, part_files, stop, clTodo, clSize>>
    /\ UNCHANGED <<cfgVars, sharedVars, workerVars, histVars, xVars, progVars, batchVars>>

\* a batch of one link more than the limit
current_batch_plus_one(ls, lim) == IF lim > 0 THEN Take(ls, lim + 1) ELSE ls

\* current_batch = links[:files_limit] if files_limit else links
current_batch(ls, lim) == IF lim > 0 THEN Take(ls, lim) ELSE ls
\* a slice that starts one link early
remaining_links_overlap(ls, lim) == IF lim > 0 THEN Drop(ls, lim - 1) ELSE <<>>

\* links = links[files_limit:] if files_limit else []
remaining_links(ls, lim) == IF lim > 0 THEN Drop(ls, lim) ELSE <<>>

\* "while links:": slice the next batch, fill the queue, enter handle_tasks
M_Batch ==
    /\ mpc = "batch"
    /\ IF links = <<>>
       THEN /\ mpc' = "done"
            /\ UNCHANGED <<links, queue, tasks, part_files, series, sliced>>
       ELSE /\ queue' = current_batch(links, files_limit)
            /\ links' = remaining_links(links, files_limit)
            /\ sliced' = Append(sliced, current_batch(links, files_limit))
            /\ part_files' = {}
            /\ series' = 0
            /\ tasks' = <<>>
            /\ mpc' = "loop"
    /\ UNCHANGED <<active_threads, jIdx, stop, clTodo, clSize>>
    /\ UNCHANGED <<cfgVars, sharedVars, workerVars, histVars>>
    /\ UNCHANGED xVars
    /\ UNCHANGED uploads

\* a loop that only waits for the queue to empty
LoopConditionQueueOnly == queue # <<>>

\* while not download_queue.empty() or any(task.is_alive() for task in tasks)
LoopCondition == queue # <<>> \/ \E i \in 1..Len(tasks) : is_alive(tasks[i])

\* head of handle_tasks' outer loop, with its stop_event test
M_Loop ==
    /\ mpc = "loop"
    /\ IF ~LoopCondition
       THEN mpc' = "parts" /\ jIdx' = jIdx
       ELSE IF stop /\ ~legacy
            THEN mpc' = "stop_join" /\ jIdx' = 1
            ELSE mpc' = "fill" /\ jIdx' = jIdx
    /\ UNCHANGED <<links, queue, tasks, active_threads, part_files, stop, clTodo, clSize>>
    /\ UNCHANGED <<cfgVars, sharedVars, workerVars, histVars>>
    /\ UNCHANGED xVars
    /\ UNCHANGED <<progVars, batchVars>>

\* one thread fewer than allowed
HasCapacityOneLess == Len(tasks) < simultaneous_downloads - 1

\* len(tasks) < max_simultaneous; in the earlier revision,
\* len(tasks) < semaphore._value
HasCapacity ==
    IF legacy THEN Len(tasks) < sem ELSE Len(tasks) < simultaneous_downloads

\* while not download_queue.empty() and len(tasks) < max_simultaneous:
\*     if stop_event.is_set(): break
M_Fill ==
    /\ mpc = "fill"
    /\ mpc' = IF queue # <<>> /\ HasCapacity /\ (legacy \/ ~stop) THEN "get" ELSE "prune"
    /\ UNCHANGED <<links, queue, tasks, active_threads, jIdx, part_files, stop, clTodo, clSize>>
    /\ UNCHANGED <<cfgVars, sharedVars, workerVars, histVars>>
    /\ UNCHANGED xVars
    /\ UNCHANGED <<progVars, batchVars>>

\* url = download_queue.get(); Thread(...).start(); tasks.append; active_threads.append
M_Get ==
    /\ mpc = "get"
    /\ LET url == Head(queue)
       IN /\ queue' = Tail(queue)
          /\ wpc' = [wpc EXCEPT ![url] = "acquire"]
          /\ tasks' = Append(tasks, url)
          /\ active_threads' = Append(active_threads, url)
    /\ mpc' = "fill"
    /\ UNCHANGED <<links, jIdx, part_files, stop, clTodo, clSize>>
    /\ UNCHANGED <<cfgVars, sharedVars, histVars>>
    /\ UNCHANGED <<attempt, dsize, total, body, chunk_count, wres, waits>>
    /\ UNCHANGED xVars
    /\ UNCHANGED <<progVars, batchVars>>

\* tasks = [task for task in tasks if task.is_alive()]; time.sleep(0.5)
M_Prune ==
    /\ mpc = "prune"
    /\ tasks' = SelectAlive(tasks)
    /\ mpc' = "loop"
    /\ UNCHANGED <<links, queue, active_threads, jIdx, part_files, stop, clTodo, clSize>>
    /\ UNCHANGED <<cfgVars, sharedVars, workerVars, histVars>>
    /\ UNCHANGED xVars
    /\ UNCHANGED <<progVars, batchVars>>

\* the list a join loop walks: active_threads in handle_exit, tasks in handle_tasks
JoinList == IF mpc = "h_join" THEN active_threads ELSE tasks

\* the positions from jIdx on that hold a live thread
AliveFrom == {i \in jIdx..Len(JoinList) : is_alive(JoinList[i])}

\* thread.join() with no timeout returns only when the thread has ended
JoinWithoutTimeout(u) == ~is_alive(u)

\* thread.join(timeout=5) / task.join(timeout=3) returns when the thread has
\* ended or the timeout has expired, whichever comes first
JoinReturns(u) == TRUE

\* "for thread in ...: if thread.is_alive(): thread.join(timeout=...)": dead
\* threads are passed over; a live one is waited for until it has finished or
\* the timeout has expired; after the last one the loop is left
M_Join ==
    /\ mpc \in {"h_join", "stop_join"}
    /\ IF AliveFrom = {}
       THEN /\ mpc' = IF mpc = "h_join" THEN "h_cleanup" ELSE "parts"
            /\ jIdx' = jIdx
       ELSE LET i == CHOOSE i \in AliveFrom : \A j \in AliveFrom : i <= j
            IN /\ JoinReturns(JoinList[i])
               /\ jIdx' = 1 + i
               /\ mpc' = mpc
    /\ UNCHANGED <<links, queue, tasks, active_threads, part_files, stop, clTodo, clSize>>
    /\ UNCHANGED <<cfgVars, sharedVars, workerVars, histVars>>
    /\ UNCHANGED xVars
    /\ UNCHANGED <<progVars, batchVars>>

\* the process ends: its (daemon) worker threads end with it, wherever they are
KilledAt(pc) == IF pc \in {"unstarted", "dead"} THEN pc ELSE "killed"

ProcessEnds ==
    /\ wpc' = [u \in Urls |-> KilledAt(wpc[u])]
    /\ attempt' = [u \in Urls |-> 0]
    /\ dsize' = [u \in Urls |-> 0]
    /\ total' = [u \in Urls |-> 0]
    /\ body' = [u \in Urls |-> <<>>]
    /\ chunk_count' = [u \in Urls |-> 0]
    /\ UNCHANGED <<wres, waits>>

\* every part file taken for a first volume
is_first_part_any_index(name) == is_parted(name)

\* re.search(r"\.part0*1\.rar$|\.parte0*1\.rar$", name)
is_first_part(name) ==
    \E s \in UpToDollar(name) :
        /\ EndsWith(s, <<".", "r", "a", "r">>)
        /\ LET stem == SubSeq(s, 1, Len(s) - 4)
           IN /\ EndsWith(stem, <<"1">>)
              /\ \E z \in 0..(Len(stem) - 1) :
                    LET pre == SubSeq(stem, 1, Len(stem) - 1 - z)
                    IN /\ \A i \in (Len(pre) + 1)..(Len(stem) - 1) : stem[i] = "0"
                       /\ \/ EndsWith(pre, <<".", "p", "a", "r", "t">>)
                          \/ EndsWith(pre, <<".", "p", "a", "r", "t", "e">>)

\* first_parts = [path for name, path in part_files.items() if re.search(...)]
first_parts(parts) == {p \in parts : is_first_part(local_filename(p))}

\* where the main thread goes after the part-file step: "if upload:"
AfterParts == IF upload THEN "upload" ELSE "batch"

\* if part_files: process_part_files(...) is entered and first_parts built;
\* with nothing to process: if upload: upload_file(...), next batch
M_Parts ==
    /\ mpc = "parts"
    /\ pTodo' = first_parts(part_files)
    /\ mpc' = IF first_parts(part_files) = {} THEN AfterParts ELSE "part_iter"
    /\ UNCHANGED <<links, queue, tasks, active_threads, jIdx, part_files, stop, clTodo, clSize>>
    /\ UNCHANGED <<cfgVars, sharedVars, workerVars, histVars>>
    /\ UNCHANGED <<store, inv, saved, xcache, xres>>
    /\ UNCHANGED <<progVars, batchVars>>

\* the password process_part_files ends up with for a first volume, given the
\* one found in the store (0 = none): the stored one, else obtain_password's
PartPassword(content, cachedpw) ==
    IF cachedpw # 0 THEN cachedpw ELSE obtain_password(content).password

\* one turn of "for first_part in first_parts": hash, store lookup, on a miss
\* obtain_password (test only) and save, then extract_archive with the
\* password (its failure caught), then "if delete_after: os.remove(first_part)";
\* get_hash_md5 on a missing file and os.remove failing are not caught
M_PartIter ==
    /\ mpc = "part_iter"
    /\ \E p \in pTodo :
        /\ pTodo' = pTodo \ {p}
        /\ IF ~exists(p)
           THEN /\ mpc' = "crashed"
                /\ ProcessEnds
                /\ UNCHANGED <<store, inv, saved, xcache, xres, disk>>
           ELSE /\ IF delete_after /\ p \in undeletable
                   THEN /\ mpc' = "crashed"
                        /\ ProcessEnds
                   ELSE /\ mpc' = IF pTodo = {p} THEN AfterParts ELSE "part_iter"
                        /\ UNCHANGED workerVars
                /\ LET cached == get_password_from_database(get_hash_md5(p))
                   IN \E cachedpw \in (IF cached = {} THEN {0} ELSE cached) :
                      LET content == disk[p]
                          password == PartPassword(content, cachedpw)
                          tested == IF cachedpw = 0 THEN obtain_password(content).tried ELSE <<>>
                          found == cachedpw = 0 /\ password # 0
                      IN /\ inv' = [inv EXCEPT ![p] =
                                tested \o (IF password # 0 THEN <<password>> ELSE <<>>)]
                         /\ store' = IF found
                                     THEN save_password_to_database(local_filename(p), get_hash_md5(p), password)
                                     ELSE store
                         /\ saved' = [saved EXCEPT ![p] = IF found THEN @ + 1 ELSE @]
                         /\ xcache' = [xcache EXCEPT ![p] =
                                IF cachedpw = 0 THEN "miss"
                                ELSE IF archiver(content, cachedpw) = "ok" THEN "accepted"
                                ELSE "rejected"]
                         /\ xres' = [xres EXCEPT ![p] =
                                IF password = 0 THEN "nopass"
                                ELSE IF archiver(content, password) # "ok" THEN "failed"
                                ELSE IF found THEN "brute" ELSE "cached"]
                         /\ disk' = IF delete_after /\ p \notin undeletable
                                    THEN Removed(p) ELSE disk
    /\ UNCHANGED <<links, queue, tasks, active_threads, jIdx, part_files, stop, clTodo, clSize>>
    /\ UNCHANGED <<cfgVars, histVars>>
    /\ UNCHANGED <<sem, active_downloads, unlinked, extracted, faults>>
    /\ UNCHANGED <<progVars, batchVars>>

\* upload_file(base_folder, group_name): the call returns when the folder has
\* been moved; then the next turn of "while links:"
M_Upload ==
    /\ mpc = "upload"
    /\ uploads' = uploads + 1
    /\ mpc' = "batch"
    /\ UNCHANGED <<links, queue, tasks, active_threads, jIdx, part_files, stop, clTodo, clSize>>
    /\ UNCHANGED <<cfgVars, sharedVars, workerVars, histVars, xVars, progVars>>
    /\ UNCHANGED sliced

(* ------------------------- SIGINT: handle_exit ------------------------- *)
\* a handler that returns to the interrupted statement
HandlerReturns(pc) == pc

\* where the main thread goes when the handler runs: it never returns to the
\* interrupted statement, the handler ends in exit(0)
HandlerEntry(pc) == "h_join"

\* the signal arrives; stop_event.set()
H_Signal ==
    /\ mpc \in {"batch", "loop", "fill", "get", "prune", "stop_join", "parts", "part_iter",
                "upload"}
    /\ stop' = TRUE
    /\ stopTracked' = active_downloads
    /\ mpc' = HandlerEntry(mpc)
    /\ jIdx' = 1
    /\ UNCHANGED <<links, queue, tasks, active_threads, part_files, clTodo, clSize>>
    /\ UNCHANGED <<cfgVars, sharedVars, workerVars>>
    /\ UNCHANGED <<failures, nAttempts, treated, observed, resumed, run>>
    /\ UNCHANGED xVars
    /\ UNCHANGED <<progVars, batchVars>>

\* cleanup_partial_files: "for file_path, expected_size in active_downloads.items()"
H_CleanupStart ==
    /\ mpc = "h_cleanup"
    /\ clTodo' = DOMAIN active_downloads
    /\ clSize' = Cardinality(DOMAIN active_downloads)
    /\ mpc' = "h_iter"
    /\ UNCHANGED <<links, queue, tasks, active_threads, jIdx, part_files, stop>>
    /\ UNCHANGED <<cfgVars, sharedVars, workerVars, histVars>>
    /\ UNCHANGED xVars
    /\ UNCHANGED <<progVars, batchVars>>

\* a file of exactly the expected size counted as incomplete too
IsPartialOrEqual(p, expected) == exists(p) /\ getsize(p) <= expected

\* if actual_size < expected_size
IsPartial(p, expected) == exists(p) /\ getsize(p) < expected

\* one step of the iteration: the dict changed size (RuntimeError out of the
\* handler), or the loop is over (active_downloads.clear(), then handle_exit's
\* exit(0)), or one entry is evaluated; an os.remove that fails is caught
\* (except Exception) and the iteration goes on
H_CleanupStep ==
    /\ mpc = "h_iter"
    /\ IF Cardinality(DOMAIN active_downloads) # clSize
       THEN /\ mpc' = "crashed"
            /\ ProcessEnds
            /\ UNCHANGED <<clTodo, active_downloads, disk, unlinked>>
       ELSE IF clTodo \cap DOMAIN active_downloads = {}
            THEN /\ active_downloads' = <<>>
                 /\ mpc' = "exited"
                 /\ ProcessEnds
                 /\ UNCHANGED <<clTodo, disk, unlinked>>
            ELSE \E p \in clTodo \cap DOMAIN active_downloads :
                 /\ clTodo' = clTodo \ {p}
                 /\ mpc' = mpc
                 /\ active_downloads' = active_downloads
                 /\ IF IsPartial(p, active_downloads[p]) /\ p \notin undeletable
                    THEN /\ disk' = Removed(p)
                         /\ unlinked' = IF wpc[p] = "stream"
                                        THEN unlinked \cup {p} ELSE unlinked
                    ELSE UNCHANGED <<disk, unlinked>>
                 /\ UNCHANGED workerVars
    /\ UNCHANGED <<links, queue, tasks, active_threads, jIdx, part_files, stop, clSize>>
    /\ UNCHANGED <<sem, extracted, faults>>
    /\ UNCHANGED <<cfgVars, histVars>>
    /\ UNCHANGED xVars
    /\ UNCHANGED <<progVars, batchVars>>

(* --------------------------- specifications ---------------------------- *)
EmptyDisk == [p \in Urls |-> NoFile]

InitWorkers ==
    /\ attempt = [u \in Urls |-> 0]
    /\ dsize = [u \in Urls |-> 0]
    /\ total = [u \in Urls |-> 0]
    /\ body = [u \in Urls |-> <<>>]
    /\ chunk_count = [u \in Urls |-> 0]
    /\ wres = [u \in Urls |-> "none"]
    /\ waits = [u \in Urls |-> <<>>]
    /\ failures = [u \in Urls |-> 0]
    /\ nAttempts = [u \in Urls |-> 0]
    /\ treated = [u \in Urls |-> <<>>]
    /\ observed = {}
    /\ resumed = [u \in Urls |-> 0]

\* the extraction engine before any archive was handled
InitExtraction ==
    /\ pTodo = {}
    /\ inv = [p \in Urls |-> <<>>]
    /\ saved = [p \in Urls |-> 0]
    /\ xcache = [p \in Urls |-> "none"]
    /\ xres = [p \in Urls |-> "none"]

\* the files served are archives that open with candidate 7; a file of
\* another length is no archive
ServedArchives(rem) ==
    [n \in 0..MaxSize |-> IF n > 0 /\ \E u \in Urls : Len(rem[u]) = n THEN Opens(7) ELSE Rejects]

\* the program started on NumUrls discovered links; module globals of main.py
Init ==
    /\ fname = DefaultNames
    /\ delete_after = FALSE
    /\ undeletable = {}
    /\ disk0 = EmptyDisk
    /\ store = <<>>
    /\ InitExtraction
    /\ c \in 1..MaxConc
    /\ files_limit \in {0, BatchLimit}
    /\ remote = [u \in Urls |-> Content(MaxSize)]
    /\ honoursRange = TRUE
    /\ sendsLength = TRUE
    /\ mpc = "batch"
    /\ links = [i \in 1..NumUrls |-> i]
    /\ queue = <<>>
    /\ tasks = <<>>
    /\ active_threads = <<>>
    /\ jIdx = 1
    /\ part_files = {}
    /\ stop = FALSE
    /\ clTodo = {}
    /\ clSize = 0
    /\ sem = simultaneous_downloads
    /\ active_downloads = <<>>
    /\ disk = EmptyDisk
    /\ unlinked = {}
    /\ extracted = {}
    /\ faults = MaxFaults
    /\ wpc = [u \in Urls |-> "unstarted"]
    /\ InitWorkers
    /\ stopTracked = <<>>
    /\ run = 1
    /\ series = 0
    /\ legacy = FALSE
    /\ upload = FALSE
    /\ filter_range = <<>>
    /\ sliced = <<>>
    /\ uploads = 0
    /\ arch = ServedArchives(remote)

Next ==
    \/ M_Batch \/ M_Loop \/ M_Fill \/ M_Get \/ M_Prune \/ M_Join
    \/ M_Parts \/ M_PartIter
    \/ H_Signal \/ H_CleanupStart \/ H_CleanupStep
    \/ \E u \in Urls : Worker(u)

Spec == Init /\ [][Next]_vars

\* the steps of the main thread, the SIGINT handler included once it runs
MainThread ==
    \/ M_Batch \/ M_Loop \/ M_Fill \/ M_Get \/ M_Prune \/ M_Join
    \/ M_Parts \/ M_PartIter
    \/ H_CleanupStart \/ H_CleanupStep

\* the main thread keeps running: its sleeps and joins are all timed; nothing
\* is assumed of the workers (a transfer may hang) nor of the signal
FairSpec == Spec /\ WF_vars(MainThread)

(* ------------- one transfer at a time: SpecTransfer -------------------- *)
\* download_and_process_file is run on one URL, with its stop_event argument
\* set by the caller at any moment, and run again on the same destination path
\* (a later program run) once it has ended.

\* the URLs a transfer is run on: a part file and a standalone archive
TransferUrls == {u \in Urls : u <= 2}

\* what each invocation may suffer: a failing HEAD and max_retries + 1 failing attempts
FaultsPerRun == max_retries + 2

InitTransfer ==
    /\ fname = DefaultNames
    /\ delete_after = FALSE
    /\ undeletable = {}
    /\ disk0 = EmptyDisk
    /\ store = <<>>
    /\ InitExtraction
    /\ c = 1
    /\ files_limit = 0
    /\ \E tu \in TransferUrls, n \in 0..MaxSize :
        /\ remote = [u \in Urls |-> IF u = tu THEN Content(n) ELSE <<>>]
        /\ wpc = [u \in Urls |-> IF u = tu THEN "acquire" ELSE "unstarted"]
        /\ tasks = <<tu>>
        /\ active_threads = <<tu>>
    /\ honoursRange \in BOOLEAN
    /\ sendsLength \in BOOLEAN
    /\ mpc = "harness"
    /\ links = <<>>
    /\ queue = <<>>
    /\ jIdx = 1
    /\ part_files = {}
    /\ stop = FALSE
    /\ clTodo = {}
    /\ clSize = 0
    /\ sem = c
    /\ active_downloads = <<>>
    /\ disk = EmptyDisk
    /\ unlinked = {}
    /\ extracted = {}
    /\ faults = FaultsPerRun
    /\ InitWorkers
    /\ stopTracked = <<>>
    /\ run = 1
    /\ series = 0
    /\ legacy = FALSE
    /\ upload = FALSE
    /\ filter_range = <<>>
    /\ sliced = <<>>
    /\ uploads = 0
    /\ arch = ServedArchives(remote)

\* stop_event.set()
T_SetStop ==
    /\ mpc = "harness"
    /\ ~stop
    /\ stop' = TRUE
    /\ stopTracked' = active_downloads
    /\ UNCHANGED <<mpc, links, queue, tasks, active_threads, jIdx, part_files, clTodo, clSize>>
    /\ UNCHANGED <<cfgVars, sharedVars, workerVars>>
    /\ UNCHANGED <<failures, nAttempts, treated, observed, resumed, run>>
    /\ UNCHANGED xVars
    /\ UNCHANGED <<progVars, batchVars>>

\* the program is started again on the same URL and destination path: fresh
\* module globals (stop_event, active_downloads), a fresh semaphore and
\* part-file table; the files on disk stay
T_Rerun ==
    /\ mpc = "harness"
    /\ run < MaxRuns
    /\ \E u \in Urls :
        /\ wpc[u] = "dead"
        /\ wpc' = [wpc EXCEPT ![u] = "acquire"]
        /\ wres' = [wres EXCEPT ![u] = "none"]
        /\ waits' = [waits EXCEPT ![u] = <<>>]
        /\ failures' = [failures EXCEPT ![u] = 0]
        /\ nAttempts' = [nAttempts EXCEPT ![u] = 0]
        /\ treated' = [treated EXCEPT ![u] = <<>>]
        /\ resumed' = [resumed EXCEPT ![u] = 0]
    /\ run' = run + 1
    /\ stop' = FALSE
    /\ observed' = {}
    /\ stopTracked' = <<>>
    /\ sem' = c
    /\ active_downloads' = <<>>
    /\ part_files' = {}
    /\ extracted' = {}
    /\ faults' = FaultsPerRun
    /\ UNCHANGED <<mpc, links, queue, tasks, active_threads, jIdx, clTodo, clSize>>
    /\ UNCHANGED <<cfgVars, disk, unlinked>>
    /\ UNCHANGED <<attempt, dsize, total, body, chunk_count>>
    /\ UNCHANGED xVars
    /\ UNCHANGED <<progVars, batchVars>>

NextTransfer ==
    \/ T_SetStop \/ T_Rerun
    \/ \E u \in Urls : Worker(u)

SpecTransfer == InitTransfer /\ [][NextTransfer]_vars

(* ------------- cleanup on its own: SpecCleanup -------------------------- *)
\* handle_exit has set the flag and finished its joins with no worker left;
\* cleanup_partial_files runs over any tracking table and any files.

CleanupPaths == {u \in Urls : u <= 2}

\* a path holds no file or a file of 0..MaxSize bytes
FileChoices == {NoFile} \cup {Content(n) : n \in 0..MaxSize}

InitCleanup ==
    /\ fname = DefaultNames
    /\ delete_after = FALSE
    /\ store = <<>>
    /\ InitExtraction
    /\ c = 1
    /\ files_limit = 0
    /\ remote = [u \in Urls |-> Content(MaxSize)]
    /\ honoursRange = TRUE
    /\ sendsLength = TRUE
    /\ mpc = "h_cleanup"
    /\ links = <<>>
    /\ queue = <<>>
    /\ tasks = <<>>
    /\ active_threads = <<>>
    /\ jIdx = 1
    /\ part_files = {}
    /\ stop = TRUE
    /\ clTodo = {}
    /\ clSize = 0
    /\ sem = simultaneous_downloads
    /\ \E tracked \in SUBSET CleanupPaths : active_downloads \in [tracked -> 0..MaxSize]
    /\ \E files \in [CleanupPaths -> FileChoices] :
        disk = [p \in Urls |-> IF p \in CleanupPaths THEN files[p] ELSE NoFile]
    /\ disk0 = disk
    /\ undeletable \in SUBSET CleanupPaths
    /\ unlinked = {}
    /\ extracted = {}
    /\ faults = 0
    /\ wpc = [u \in Urls |-> "unstarted"]
    /\ InitWorkers
    /\ stopTracked = active_downloads
    /\ run = 1
    /\ series = 0
    /\ legacy = FALSE
    /\ upload = FALSE
    /\ filter_range = <<>>
    /\ sliced = <<>>
    /\ uploads = 0
    /\ arch = ServedArchives(remote)

NextCleanup == H_CleanupStart \/ H_CleanupStep

SpecCleanup == InitCleanup /\ [][NextCleanup]_vars

(* ------------- archives end to end: SpecExtract ------------------------ *)
\* analyze_and_download is run on two links that download without incident;
\* the names, the contents, the archives' passwords, the store left by earlier
\* runs and delete_after vary.

ExtractUrls == {u \in Urls : u <= 2}

PartName(stem, e, digits) ==
    <<stem, ".", "p", "a", "r", "t">> \o e \o digits \o <<".", "r", "a", "r">>

\* the names the two links are given: a first volume and a standalone
\* archive, two standalone archives, two first volumes, two volumes of a set
NameChoices ==
    { <<PartName("m", <<>>, <<"1">>), <<"s", ".", "r", "a", "r">>>>,
      <<<<"s", ".", "r", "a", "r">>, <<"t", ".", "r", "a", "r">>>>,
      <<PartName("m", <<>>, <<"0", "1">>), PartName("n", <<"e">>, <<"1">>)>>,
      <<PartName("m", <<>>, <<"1">>), PartName("m", <<>>, <<"2">>)>> }

\* what the archive of one byte may be
ArchiveKinds == {Rejects, Broken, Opens(1), Opens(NumPasswords), OpensTwice(7, 9)}

\* the lowest candidate an archive opens with (0: none)
LowestOk(kind) ==
    IF \E i \in passwords : kind[i] = "ok"
    THEN CHOOSE i \in passwords : kind[i] = "ok" /\ \A j \in passwords : kind[j] = "ok" => i <= j
    ELSE 0

\* a row an earlier run saved for the one-byte archive: the password that run
\* found; an archive that opens with nothing now was saved with candidate 7
EarlierRow ==
    <<<<"o", ".", "r", "a", "r">>, Content(1),
      IF LowestOk(arch[1]) # 0 THEN LowestOk(arch[1]) ELSE 7>>

InitExtract ==
    /\ c \in 1..MaxConc
    /\ files_limit = 0
    /\ \E names \in NameChoices :
        fname = [u \in Urls |-> IF u \in ExtractUrls THEN names[u] ELSE DefaultNames[u]]
    /\ \E n \in {1, MaxSize} :
        remote = [u \in Urls |-> IF u = 1 THEN Content(1) ELSE IF u = 2 THEN Content(n) ELSE <<>>]
    /\ \E k1 \in ArchiveKinds, k2 \in {Rejects, Opens(2)} :
        arch = [n \in 0..MaxSize |-> IF n = 1 THEN k1 ELSE IF n = 0 THEN Rejects ELSE k2]
    /\ store \in {<<>>, <<EarlierRow>>}
    /\ delete_after \in BOOLEAN
    /\ undeletable = {}
    /\ disk0 = EmptyDisk
    /\ honoursRange = TRUE
    /\ sendsLength = TRUE
    /\ mpc = "batch"
    /\ links = <<1, 2>>
    /\ queue = <<>>
    /\ tasks = <<>>
    /\ active_threads = <<>>
    /\ jIdx = 1
    /\ part_files = {}
    /\ stop = FALSE
    /\ clTodo = {}
    /\ clSize = 0
    /\ sem = simultaneous_downloads
    /\ active_downloads = <<>>
    /\ disk = EmptyDisk
    /\ unlinked = {}
    /\ extracted = {}
    /\ faults = 0
    /\ wpc = [u \in Urls |-> "unstarted"]
    /\ InitWorkers
    /\ InitExtraction
    /\ stopTracked = <<>>
    /\ run = 1
    /\ series = 0
    /\ legacy = FALSE
    /\ upload = FALSE
    /\ filter_range = <<>>
    /\ sliced = <<>>
    /\ uploads = 0

NextExtract ==
    \/ M_Batch \/ M_Loop \/ M_Fill \/ M_Get \/ M_Prune
    \/ M_Parts \/ M_PartIter
    \/ \E u \in Urls : Worker(u)

SpecExtract == InitExtract /\ [][NextExtract]_vars

(* ------------- classification on its own: SpecClassify ----------------- *)
\* one worker has downloaded its file and is about to classify it; the name
\* is any of the names built from a stem, a marker, index digits and an end.

NameStems == {<<>>, <<"m">>}
NameMarkers ==
    { <<".", "p", "a", "r", "t">>, <<".", "p", "a", "r", "t", "e">>,
      <<"p", "a", "r", "t">>, <<".", "p", "a", "r">>, <<".", "p", "a", "r", "t", "s">> }
IndexDigits == {"0", "1", "7"}
NameIndices ==
    {<<>>} \cup {<<a>> : a \in IndexDigits}
           \cup {<<a, b>> : a \in IndexDigits, b \in IndexDigits}
           \cup {<<a, b, d>> : a \in IndexDigits, b \in IndexDigits, d \in IndexDigits}
NameEnds ==
    { <<".", "r", "a", "r">>, <<".", "r", "a", "r", LF>>, <<".", "r", "a">>,
      <<".", "r", "a", "r", "x">>, <<>> }
ClassifyNames ==
    {st \o mk \o ix \o en : st \in NameStems, mk \in NameMarkers, ix \in NameIndices, en \in NameEnds}

InitClassify ==
    /\ \E name \in ClassifyNames :
        fname = [u \in Urls |-> IF u = 1 THEN name ELSE DefaultNames[u]]
    /\ delete_after = FALSE
    /\ undeletable = {}
    /\ disk0 = EmptyDisk
    /\ store = <<>>
    /\ InitExtraction
    /\ c = 1
    /\ files_limit = 0
    /\ remote = [u \in Urls |-> Content(1)]
    /\ honoursRange = TRUE
    /\ sendsLength = TRUE
    /\ mpc = "prune"
    /\ links = <<>>
    /\ queue = <<>>
    /\ tasks = <<1>>
    /\ active_threads = <<1>>
    /\ jIdx = 1
    /\ part_files = {}
    /\ stop = FALSE
    /\ clTodo = {}
    /\ clSize = 0
    /\ sem = simultaneous_downloads - 1
    /\ active_downloads = [p \in {1} |-> 1]
    /\ disk = [p \in Urls |-> IF p = 1 THEN Content(1) ELSE NoFile]
    /\ unlinked = {}
    /\ extracted = {}
    /\ faults = 0
    /\ wpc = [u \in Urls |-> IF u = 1 THEN "route" ELSE "unstarted"]
    /\ attempt = [u \in Urls |-> 0]
    /\ dsize = [u \in Urls |-> IF u = 1 THEN 1 ELSE 0]
    /\ total = [u \in Urls |-> IF u = 1 THEN 1 ELSE 0]
    /\ body = [u \in Urls |-> <<>>]
    /\ chunk_count = [u \in Urls |-> IF u = 1 THEN 1 ELSE 0]
    /\ wres = [u \in Urls |-> IF u = 1 THEN "ok" ELSE "none"]
    /\ waits = [u \in Urls |-> <<>>]
    /\ failures = [u \in Urls |-> 0]
    /\ nAttempts = [u \in Urls |-> IF u = 1 THEN 1 ELSE 0]
    /\ treated = [u \in Urls |-> <<>>]
    /\ observed = {}
    /\ resumed = [u \in Urls |-> 0]
    /\ stopTracked = <<>>
    /\ run = 1
    /\ series = 0
    /\ legacy = FALSE
    /\ upload = FALSE
    /\ filter_range = <<>>
    /\ sliced = <<>>
    /\ uploads = 0
    /\ arch = ServedArchives(remote)

NextClassify == \E u \in Urls : W_Route(u)

SpecClassify == InitClassify /\ [][NextClassify]_vars

(* ------------- the part-file step on its own: SpecParts ---------------- *)
\* the downloads of a batch of NumUrls links have ended and the main thread
\* is in front of "if part_files:"; the links are volumes of sets, the first
\* two of the set "m" and the others of the set "n", in either spelling and
\* with any index; part_files holds any of those that classify as part files.

VolumeIndices ==
    { <<"1">>, <<"0", "1">>, <<"2">>, <<"1", "0">>, <<"1", "1">>, <<"0", "0", "1">> }
VolumeNames(stem) ==
    {PartName(stem, e, ix) : e \in {<<>>, <<"e">>}, ix \in VolumeIndices}

InitParts ==
    /\ fname \in [Urls -> VolumeNames("m") \cup VolumeNames("n")]
    /\ \A u \in Urls : fname[u] \in (IF u <= 2 THEN VolumeNames("m") ELSE VolumeNames("n"))
    /\ \A u \in Urls, v \in Urls : u # v => fname[u] # fname[v]
    /\ part_files \in SUBSET {u \in Urls : is_parted(fname[u])}
    /\ delete_after = FALSE
    /\ undeletable = {}
    /\ disk0 = EmptyDisk
    /\ store = <<>>
    /\ InitExtraction
    /\ c = 1
    /\ files_limit = 0
    /\ remote = [u \in Urls |-> Content(1)]
    /\ honoursRange = TRUE
    /\ sendsLength = TRUE
    /\ mpc = "parts"
    /\ links = <<>>
    /\ queue = <<>>
    /\ tasks = <<>>
    /\ active_threads = [i \in 1..NumUrls |-> i]
    /\ jIdx = 1
    /\ stop = FALSE
    /\ clTodo = {}
    /\ clSize = 0
    /\ sem = simultaneous_downloads
    /\ active_downloads = <<>>
    /\ disk = [p \in Urls |-> IF p \in part_files THEN Content(1) ELSE NoFile]
    /\ unlinked = {}
    /\ extracted = {}
    /\ faults = 0
    /\ wpc = [u \in Urls |-> "dead"]
    /\ InitWorkers
    /\ stopTracked = <<>>
    /\ run = 1
    /\ series = 0
    /\ legacy = FALSE
    /\ upload = FALSE
    /\ filter_range = <<>>
    /\ sliced = <<>>
    /\ uploads = 0
    /\ arch = ServedArchives(remote)

NextParts == M_Parts \/ M_PartIter

SpecParts == InitParts /\ [][NextParts]_vars

(* ------------- failures of single files: SpecFailures ------------------ *)
\* analyze_and_download is run on two links, in one batch or in two, with no
\* signal; the network may fail often enough to exhaust the retries of a
\* download, the archive may be unreadable for the archiver, and os.remove
\* may fail on some paths.

FailureFaults == {0, max_retries + 1}

\* the names of the two links: a first volume and a standalone archive, or
\* two standalone archives
FailureNames ==
    { <<PartName("m", <<>>, <<"1">>), <<"s", ".", "r", "a", "r">>>>,
      <<<<"s", ".", "r", "a", "r">>, <<"t", ".", "r", "a", "r">>>> }

InitFailures ==
    /\ c \in 1..MaxConc
    /\ files_limit \in {0, 1}
    /\ \E names \in FailureNames :
        fname = [u \in Urls |-> IF u \in ExtractUrls THEN names[u] ELSE DefaultNames[u]]
    /\ remote = [u \in Urls |-> IF u \in ExtractUrls THEN Content(1) ELSE <<>>]
    /\ \E k1 \in {Opens(7), Broken} :
        arch = [n \in 0..MaxSize |-> IF n = 1 THEN k1 ELSE Rejects]
    /\ store = <<>>
    /\ delete_after \in BOOLEAN
    /\ undeletable \in {{}, {1}}
    /\ disk0 = EmptyDisk
    /\ honoursRange = TRUE
    /\ sendsLength = TRUE
    /\ mpc = "batch"
    /\ links = <<1, 2>>
    /\ queue = <<>>
    /\ tasks = <<>>
    /\ active_threads = <<>>
    /\ jIdx = 1
    /\ part_files = {}
    /\ stop = FALSE
    /\ clTodo = {}
    /\ clSize = 0
    /\ sem = simultaneous_downloads
    /\ active_downloads = <<>>
    /\ disk = EmptyDisk
    /\ unlinked = {}
    /\ extracted = {}
    /\ faults \in FailureFaults
    /\ wpc = [u \in Urls |-> "unstarted"]
    /\ InitWorkers
    /\ InitExtraction
    /\ stopTracked = <<>>
    /\ run = 1
    /\ series = 0
    /\ legacy = FALSE
    /\ upload = FALSE
    /\ filter_range = <<>>
    /\ sliced = <<>>
    /\ uploads = 0

NextFailures ==
    \/ M_Batch \/ M_Loop \/ M_Fill \/ M_Get \/ M_Prune
    \/ M_Parts \/ M_PartIter
    \/ \E u \in Urls : Worker(u)

SpecFailures == InitFailures /\ [][NextFailures]_vars

(* ------------- permits over a whole run: SpecPermits ------------------- *)
\* analyze_and_download is run on a first volume and a standalone archive, in
\* one batch or in two, with the network failing or not and SIGINT arriving
\* at any moment: every way out of download_and_process_file is taken.

InitPermits ==
    /\ InitFailures
    /\ fname = [u \in Urls |-> IF u = 1 THEN PartName("m", <<>>, <<"1">>)
                               ELSE IF u = 2 THEN <<"s", ".", "r", "a", "r">>
                               ELSE DefaultNames[u]]
    /\ arch[1] = Opens(7)
    /\ ~delete_after
    /\ undeletable = {}

SpecPermits == InitPermits /\ [][Next]_vars

(* ------------- one batch to its end: SpecBatchRun ---------------------- *)
\* handle_tasks is run on one batch of all the links, with no signal; the
\* network may fail often enough to exhaust the retries of a download.

InitBatchRun ==
    /\ fname = DefaultNames
    /\ delete_after = FALSE
    /\ undeletable = {}
    /\ disk0 = EmptyDisk
    /\ store = <<>>
    /\ InitExtraction
    /\ c \in 1..MaxConc
    /\ files_limit = 0
    /\ remote = [u \in Urls |-> Content(1)]
    /\ honoursRange = TRUE
    /\ sendsLength = TRUE
    /\ mpc = "batch"
    /\ links = [i \in 1..NumUrls |-> i]
    /\ queue = <<>>
    /\ tasks = <<>>
    /\ active_threads = <<>>
    /\ jIdx = 1
    /\ part_files = {}
    /\ stop = FALSE
    /\ clTodo = {}
    /\ clSize = 0
    /\ sem = simultaneous_downloads
    /\ active_downloads = <<>>
    /\ disk = EmptyDisk
    /\ unlinked = {}
    /\ extracted = {}
    /\ faults \in FailureFaults
    /\ wpc = [u \in Urls |-> "unstarted"]
    /\ InitWorkers
    /\ stopTracked = <<>>
    /\ run = 1
    /\ series = 0
    /\ legacy = FALSE
    /\ upload = FALSE
    /\ filter_range = <<>>
    /\ sliced = <<>>
    /\ uploads = 0
    /\ arch = ServedArchives(remote)

\* the steps of the worker threads
Workers == \E u \in Urls : Worker(u)

\* handle_tasks and the threads it starts
NextBatchRun ==
    \/ M_Batch \/ M_Loop \/ M_Fill \/ M_Get \/ M_Prune
    \/ Workers

SpecBatchRun == InitBatchRun /\ [][NextBatchRun]_vars

\* the main thread keeps running (its sleep is timed) and, while some worker
\* can take a step, some worker does: every request has a timeout, so a
\* network operation delivers data or fails
FairBatchRun == SpecBatchRun /\ WF_vars(MainThread) /\ WF_vars(Workers)

(* ------------- batch progress: SpecProgress ---------------------------- *)
\* handle_tasks is run on one batch of two links that download without
\* incident; the first file has one chunk fewer than the update cadence,
\* exactly as many, one byte more, or twice as many; the second is an archive
\* of one chunk.

ProgressSizes ==
    { ChunkSize * (ProgressEvery - 1), ChunkSize * ProgressEvery,
      ChunkSize * ProgressEvery + 1, ChunkSize * 2 * ProgressEvery }

InitProgress ==
    /\ fname = [u \in Urls |-> IF u = 1 THEN <<"a", ".", "m", "k", "v">>
                               ELSE IF u = 2 THEN <<"s", ".", "r", "a", "r">>
                               ELSE DefaultNames[u]]
    /\ delete_after = FALSE
    /\ undeletable = {}
    /\ disk0 = EmptyDisk
    /\ store = <<>>
    /\ InitExtraction
    /\ c \in 1..MaxConc
    /\ files_limit = 0
    /\ \E n \in ProgressSizes :
        remote = [u \in Urls |-> IF u = 1 THEN Content(n)
                                 ELSE IF u = 2 THEN Content(ChunkSize) ELSE <<>>]
    /\ honoursRange = TRUE
    /\ sendsLength = TRUE
    /\ mpc = "batch"
    /\ links = <<1, 2>>
    /\ queue = <<>>
    /\ tasks = <<>>
    /\ active_threads = <<>>
    /\ jIdx = 1
    /\ part_files = {}
    /\ stop = FALSE
    /\ clTodo = {}
    /\ clSize = 0
    /\ sem = simultaneous_downloads
    /\ active_downloads = <<>>
    /\ disk = EmptyDisk
    /\ unlinked = {}
    /\ extracted = {}
    /\ faults = 0
    /\ wpc = [u \in Urls |-> "unstarted"]
    /\ InitWorkers
    /\ stopTracked = <<>>
    /\ run = 1
    /\ series = 0
    /\ legacy = FALSE
    /\ upload = FALSE
    /\ filter_range = <<>>
    /\ sliced = <<>>
    /\ uploads = 0
    /\ arch = ServedArchives(remote)

SpecProgress == InitProgress /\ [][NextBatchRun]_vars

(* ------------- both revisions of the scheduler: SpecBackfill ----------- *)
\* handle_tasks of either revision is run on one batch of all the links, with
\* no signal and no network fault; the earlier revision is run on files that
\* are no archives.

PlainNames == [u \in Urls |-> <<"v", ".", "m", "k", "v">>]

InitBackfill ==
    /\ legacy \in BOOLEAN
    /\ upload = FALSE
    /\ filter_range = <<>>
    /\ sliced = <<>>
    /\ uploads = 0
    /\ fname = IF legacy THEN PlainNames ELSE DefaultNames
    /\ delete_after = FALSE
    /\ undeletable = {}
    /\ disk0 = EmptyDisk
    /\ store = <<>>
    /\ InitExtraction
    /\ c \in 1..MaxConc
    /\ files_limit = 0
    /\ remote = [u \in Urls |-> Content(1)]
    /\ honoursRange = TRUE
    /\ sendsLength = TRUE
    /\ mpc = "batch"
    /\ links = [i \in 1..NumUrls |-> i]
    /\ queue = <<>>
    /\ tasks = <<>>
    /\ active_threads = <<>>
    /\ jIdx = 1
    /\ part_files = {}
    /\ stop = FALSE
    /\ clTodo = {}
    /\ clSize = 0
    /\ sem = simultaneous_downloads
    /\ active_downloads = <<>>
    /\ disk = EmptyDisk
    /\ unlinked = {}
    /\ extracted = {}
    /\ faults = 0
    /\ wpc = [u \in Urls |-> "unstarted"]
    /\ InitWorkers
    /\ stopTracked = <<>>
    /\ run = 1
    /\ series = 0
    /\ arch = ServedArchives(remote)

SpecBackfill == InitBackfill /\ [][NextBatchRun]_vars

(* ------------- batch after batch: SpecBatches -------------------------- *)
\* analyze_and_download is run on all the links, with no signal and no
\* network fault, with --limit absent, 1 or BatchLimit, with and without
\* --upload.

AllLinks == [i \in 1..NumUrls |-> i]

InitBatches ==
    /\ legacy = FALSE
    /\ upload \in BOOLEAN
    /\ filter_range = <<>>
    /\ sliced = <<>>
    /\ uploads = 0
    /\ fname = DefaultNames
    /\ delete_after = FALSE
    /\ undeletable = {}
    /\ disk0 = EmptyDisk
    /\ store = <<>>
    /\ InitExtraction
    /\ c \in 1..MaxConc
    /\ files_limit \in {0, 1, BatchLimit}
    /\ remote = [u \in Urls |-> Content(1)]
    /\ honoursRange = TRUE
    /\ sendsLength = TRUE
    /\ mpc = "batch"
    /\ links = AllLinks
    /\ queue = <<>>
    /\ tasks = <<>>
    /\ active_threads = <<>>
    /\ jIdx = 1
    /\ part_files = {}
    /\ stop = FALSE
    /\ clTodo = {}
    /\ clSize = 0
    /\ sem = simultaneous_downloads
    /\ active_downloads = <<>>
    /\ disk = EmptyDisk
    /\ unlinked = {}
    /\ extracted = {}
    /\ faults = 0
    /\ wpc = [u \in Urls |-> "unstarted"]
    /\ InitWorkers
    /\ stopTracked = <<>>
    /\ run = 1
    /\ series = 0
    /\ arch = ServedArchives(remote)

NextBatches ==
    \/ M_Batch \/ M_Loop \/ M_Fill \/ M_Get \/ M_Prune
    \/ M_Parts \/ M_PartIter \/ M_Upload
    \/ Workers

SpecBatches == InitBatches /\ [][NextBatches]_vars

(* ------------- the index-range filter: SpecFilter ---------------------- *)
\* analyze_and_download has found NumUrls links and is in front of
\* "if filter_range:"; --filter is absent or any of the strings below.

MaxIndex == NumUrls + 1
Numeral(n) == << <<"0", "1", "2", "3", "4", "5", "6", "7", "8", "9">>[n + 1] >>
Numerals == {Numeral(n) : n \in 0..MaxIndex} \cup {<<"0">> \o Numeral(2), Numeral(1) \o Numeral(0)}
RangeStrings == {a \o <<"-">> \o b : a \in Numerals, b \in Numerals}
FilterStrings ==
    RangeStrings
    \cup {<<" ">> \o str \o <<" ">> : str \in {Numeral(1) \o <<"-">> \o Numeral(2)}}
    \cup { <<>>, Numeral(1), <<"-">> \o Numeral(2), Numeral(1) \o <<"-">>,
           Numeral(1) \o <<"-", "-">> \o Numeral(2), <<"a", "-">> \o Numeral(2),
           Numeral(1) \o <<"-">> \o Numeral(2) \o <<"x">>,
           Numeral(1) \o <<" ", "-", " ">> \o Numeral(2),
           Numeral(1) \o <<":">> \o Numeral(2) }

InitFilter ==
    /\ legacy = FALSE
    /\ upload = FALSE
    /\ filter_range \in FilterStrings
    /\ sliced = <<>>
    /\ uploads = 0
    /\ fname = DefaultNames
    /\ delete_after = FALSE
    /\ undeletable = {}
    /\ disk0 = EmptyDisk
    /\ store = <<>>
    /\ InitExtraction
    /\ c = 1
    /\ files_limit = 0
    /\ remote = [u \in Urls |-> Content(1)]
    /\ honoursRange = TRUE
    /\ sendsLength = TRUE
    /\ mpc = "filter"
    /\ links = AllLinks
    /\ queue = <<>>
    /\ tasks = <<>>
    /\ active_threads = <<>>
    /\ jIdx = 1
    /\ part_files = {}
    /\ stop = FALSE
    /\ clTodo = {}
    /\ clSize = 0
    /\ sem = simultaneous_downloads
    /\ active_downloads = <<>>
    /\ disk = EmptyDisk
    /\ unlinked = {}
    /\ extracted = {}
    /\ faults = 0
    /\ wpc = [u \in Urls |-> "unstarted"]
    /\ InitWorkers
    /\ stopTracked = <<>>
    /\ run = 1
    /\ series = 0
    /\ arch = ServedArchives(remote)

\* the filter and the slicing of the batch that follows it
NextFilter == M_Filter \/ M_Batch

SpecFilter == InitFilter /\ [][NextFilter]_vars

(* ------------------------------- claims -------------------------------- *)
\* the workers that hold a download permit: acquired and not yet released
Active == {u \in Urls : wpc[u] \in
            {"head", "attempt", "open", "stream", "route", "extract", "brute", "pop", "release"}}

\* C1: in every reachable state the number of workers holding the download
\* permit is at most the configured concurrency limit c, for every c explored,
\* every interleaving and across batches.
C1_ActiveWithinLimit == Cardinality(Active) <= c

\* C1 witness: the limit is reached while a further URL is still queued.
C1_Witness == c = MaxConc /\ Cardinality(Active) = c /\ queue # <<>>

\* the paths handed to the extraction engine
ExtractedPaths == {e[1] : e \in extracted}

\* C2: a file that is strictly smaller than its expected size is never treated
\* as Completed: it is neither recorded in the part-file table nor handed to
\* the extraction engine, in particular not after a transfer that returned
\* early on the stop flag.
C2_ShortNeverCompleted ==
    \A u \in Urls :
        /\ u \in part_files =>
            /\ treated[u] # <<>>
            /\ treated[u][1] >= Len(remote[u])
            /\ wres[u] # "cancel"
        /\ \A e \in extracted :
            e[1] = u => (e[2] >= Len(remote[u]) /\ wres[u] # "cancel")

\* C3: once handle_exit has set the stop flag, waited for the workers and run
\* cleanup_partial_files, no file that was tracked with a known expected size
\* when the stop was signalled is on disk with fewer bytes than that size.
C3_CleanupLeavesNoPartial ==
    mpc = "exited" =>
        \A p \in DOMAIN stopTracked :
            stopTracked[p] > 0 => ~(exists(p) /\ getsize(p) < stopTracked[p])

IsPrefix(s, t) == Len(s) <= Len(t) /\ s = SubSeq(t, 1, Len(s))

\* C4: against a server that honours byte ranges, whatever the content and
\* wherever earlier attempts or runs were interrupted, the destination file is
\* always a prefix of the remote content, a transfer that ends in success
\* leaves exactly the remote content (the file an uninterrupted transfer
\* gives), and a transfer started on an already complete file leaves it so.
C4_ResumeIdentical ==
    honoursRange =>
        \A u \in Urls :
            /\ exists(u) => IsPrefix(disk[u], remote[u])
            /\ wres[u] = "ok" => (exists(u) /\ disk[u] = remote[u])
            /\ (resumed[u] > 0 /\ resumed[u] = Len(remote[u])) => disk[u] = remote[u]

\* C4 witness: a later run resumed from a partial file (0 < k < size) and
\* completed it.
C4_Witness ==
    \E u \in Urls :
        /\ honoursRange /\ run > 1
        /\ resumed[u] > 0 /\ resumed[u] < Len(remote[u])
        /\ wres[u] = "ok" /\ disk[u] = remote[u]

\* C5: when a transfer resumes from k > 0 bytes and the server ignores the
\* range request (full body, no content-range), a successful transfer leaves
\* exactly the full remote content.
C5_NoRangeRestartsFromZero ==
    \A u \in Urls :
        (~honoursRange /\ resumed[u] > 0 /\ wres[u] = "ok") =>
            (exists(u) /\ disk[u] = remote[u])

\* C6: whenever _download_file returns normally (the worker is at the
\* statement after the call), the file's size equals the total size resolved
\* from the response headers.
C6_ReturnMeansComplete ==
    \A u \in Urls :
        wpc[u] = "route" => (exists(u) /\ getsize(u) = total[u])

\* C7: a transfer makes at most max_retries + 1 attempts; every error before
\* the last attempt is followed by another attempt; the error is raised only
\* when the last attempt failed, and then the worker ends the task without
\* routing the file to the part-file table or to extraction.
C7_AttemptsCapped ==
    \A u \in Urls :
        /\ nAttempts[u] <= max_retries + 1
        /\ wpc[u] = "attempt" => (attempt[u] = failures[u] /\ attempt[u] <= max_retries)
        /\ wres[u] = "raised" =>
            /\ nAttempts[u] = max_retries + 1
            /\ failures[u] = max_retries + 1
            /\ treated[u] = <<>>
            /\ u \notin part_files
            /\ u \notin ExtractedPaths

\* C7 witness: a worker has ended after its transfer failed for good.
C7_Witness ==
    \E u \in Urls : wres[u] = "raised" /\ wpc[u] = "dead" /\ nAttempts[u] = max_retries + 1

\* C8: the i-th backoff wait is 2^(i-1) seconds, so the waits increase
\* strictly; a transfer that succeeds after n <= max_retries failures has made
\* exactly n waits, and a transfer is given up only after more failures.
C8_BackoffSchedule ==
    \A u \in Urls :
        /\ \A i \in 1..Len(waits[u]) : waits[u][i] = Pow2(i - 1)
        /\ \A i \in 1..(Len(waits[u]) - 1) : waits[u][i] < waits[u][i + 1]
        /\ wres[u] = "ok" => (Len(waits[u]) = failures[u] /\ failures[u] <= max_retries)
        /\ wres[u] = "raised" => failures[u] > max_retries

\* C8 witness: two failures, waits of 1 s and 2 s, then success.
C8_Witness ==
    \E u \in Urls : wres[u] = "ok" /\ failures[u] = 2 /\ waits[u] = <<1, 2>>

\* C9: a chunk is written only at a chunk boundary where the stop flag was
\* clear; the step in which a transfer sees the flag writes nothing and
\* returns; from then on that invocation writes nothing, fails nothing,
\* starts no attempt and makes no backoff wait, and the file stays in place.
C9_StopAtChunkBoundary ==
    [][\A u \in Urls :
        /\ (wpc[u] = "stream" /\ disk'[u] # disk[u]) => ~stop
        /\ (wpc[u] = "stream" /\ stop /\ body[u] # <<>> /\ failures'[u] = failures[u]
            /\ (wpc'[u] # "stream" \/ body'[u] # body[u])) =>
                u \in observed'
        /\ (u \notin observed /\ u \in observed') =>
                (disk'[u] = disk[u] /\ wres'[u] = "cancel" /\ wpc'[u] = "route")
        /\ (u \in observed /\ run' = run) =>
                /\ disk'[u] = disk[u]
                /\ wres'[u] = "cancel"
                /\ waits'[u] = waits[u]
                /\ failures'[u] = failures[u]
                /\ nAttempts'[u] = nAttempts[u]]_vars

\* C9 witness: a cancelled transfer has ended and its partial file is on disk.
C9_Witness ==
    \E u \in Urls :
        /\ u \in observed /\ wres[u] = "cancel" /\ wpc[u] = "dead"
        /\ exists(u) /\ getsize(u) > 0 /\ getsize(u) < Len(remote[u])

\* C10: once the stop flag is set the scheduler dequeues no URL and starts no
\* worker thread, in this batch or a later one; the URLs still pending stay
\* undownloaded.
C10_NoDequeueAfterStop ==
    [][stop =>
        /\ queue # <<>> => queue' = queue
        /\ active_threads' = active_threads
        /\ \A u \in Urls : wpc[u] = "unstarted" =>
                (wpc'[u] = "unstarted" /\ disk'[u] = NoFile)]_vars

\* C10 witness: the run has ended on an interrupt with URLs still in the queue.
C10_Witness ==
    /\ stop
    /\ mpc = "exited"
    /\ queue # <<>>
    /\ \A i \in 1..Len(queue) : wpc[queue[i]] = "unstarted" /\ ~exists(queue[i])

\* the main thread is out of handle_tasks' loop: back in analyze_and_download
\* or gone with the process
SchedulerLeft ==
    mpc \in {"parts", "part_iter", "upload", "batch", "done", "exited", "crashed"}

\* C11: once the stop flag is set the main thread eventually leaves the
\* scheduler loop, with URLs still queued and with workers that never finish:
\* every wait for a worker is bounded by its timeout.
C11_StopLeavesLoop == stop ~> SchedulerLeft

\* C11 witness: the loop was left on a stop with URLs still in the queue and
\* a worker that had not finished.
C11_Witness ==
    /\ stop /\ SchedulerLeft /\ queue # <<>>
    /\ \E u \in Urls : wpc[u] = "killed"

\* what cleanup_partial_files has to leave at path p: nothing if p was
\* tracked, existed, was shorter than its expected size and could be removed;
\* the file as it was otherwise
AfterCleanup(p) ==
    IF /\ p \in DOMAIN stopTracked
       /\ disk0[p] # NoFile
       /\ Len(disk0[p]) < stopTracked[p]
       /\ p \notin undeletable
    THEN NoFile
    ELSE disk0[p]

\* C12: run with no worker alive, cleanup_partial_files ends normally and has
\* deleted exactly the tracked files that existed with a size strictly below
\* their expected size; files of the expected size or more, files with
\* expected size 0 and untracked files are as they were; a removal that fails
\* leaves that file and does not keep the other entries from being handled.
C12_CleanupExact ==
    /\ mpc # "crashed"
    /\ mpc = "exited" => \A p \in Urls : disk[p] = AfterCleanup(p)

\* C12 witness: cleanup ended having deleted a short file although the
\* removal of another short file had failed, with a complete file and a file
\* of unknown size left alone.
C12_Witness ==
    /\ mpc = "exited"
    /\ \E p, q \in DOMAIN stopTracked :
        /\ p # q
        /\ p \in undeletable /\ exists(p) /\ getsize(p) < stopTracked[p]
        /\ disk0[q] # NoFile /\ Len(disk0[q]) < stopTracked[q] /\ ~exists(q)

\* C13: process_part_files is entered and runs only while no worker is alive:
\* every download of the batch has ended, successfully or not.
C13_PartsAfterDownloads ==
    mpc \in {"parts", "part_iter"} => \A u \in Urls : ~is_alive(u)

\* C13 witness: process_part_files is at a first volume, every worker of the
\* batch has ended, one of them after a download error.
C13_Witness ==
    /\ mpc = "part_iter" /\ pTodo # {}
    /\ \E u \in Urls : wpc[u] = "dead" /\ failures[u] > 0
    /\ \E i \in 1..Len(active_threads) : wpc[active_threads[i]] = "dead"

\* the archives the extraction engine is working on: those inside
\* _process_rar_file in a worker, and the first volume process_part_files is at
InFlight ==
    {u \in Urls : wpc[u] \in {"extract", "brute"}}
    \cup (IF mpc = "part_iter" THEN {0} ELSE {})

\* C14: at most one extraction is in flight at any time, in the workers and
\* in the main thread together.
C14_OneExtractionInFlight == Cardinality(InFlight) <= 1

\* C15: an archive handed to extraction for which no password worked (none in
\* the store or the stored one rejected, and no candidate accepted) is still
\* on disk afterwards, whatever delete_after says.
C15_NoPasswordKeepsArchive ==
    \A p \in Urls : xres[p] \in {"nopass", "failed"} => exists(p)

\* C16: when the store holds a password for the archive and the archiver
\* rejects it, the brute force over the candidate list is run next: the
\* extraction ends as a brute-force success or with every candidate tried.
C16_RejectedCacheThenBruteForce ==
    \A p \in Urls :
        (xcache[p] = "rejected" /\ xres[p] # "none") =>
            /\ xres[p] \in {"brute", "nopass"}
            /\ Len(inv[p]) > 1

\* the candidates 1..n in order
FirstCandidates(n) == [i \in 1..n |-> i]

\* C17: obtain_password hands the candidates to the archiver in list order and
\* stops at the first one accepted: it returns the lowest accepted candidate
\* after trying exactly the candidates up to it, both a wrong password and an
\* unexpected error making it go on, and it returns nothing only after all
\* NumPasswords candidates were tried. (Checked on every archive the engine
\* searched, in a worker or in process_part_files, where the password found
\* is then handed to the archiver once more for the extraction itself.)
C17_BruteForceInOrder ==
    \A p \in Urls :
        (xcache[p] \in {"miss", "rejected"} /\ xres[p] \in {"brute", "nopass"}) =>
            LET k == LowestOk(arch[Len(remote[p])])
                searched == IF xcache[p] = "rejected" THEN Tail(inv[p]) ELSE inv[p]
                extract == IF is_parted(local_filename(p)) THEN <<k>> ELSE <<>>
            IN IF k # 0
               THEN /\ xres[p] = "brute"
                    /\ searched = FirstCandidates(k) \o extract
                    /\ \E i \in 1..Len(store) : store[i] = <<local_filename(p), remote[p], k>>
               ELSE /\ xres[p] = "nopass"
                    /\ searched = FirstCandidates(NumPasswords)

\* C17 witness: a standalone archive that makes the archiver fail with an
\* unexpected error on candidates 1..6 and opens with candidates 7 and 9 was
\* searched up to candidate 7.
C17_Witness ==
    \E p \in Urls :
        /\ ~is_parted(local_filename(p))
        /\ arch[Len(remote[p])] = OpensTwice(7, 9)
        /\ xcache[p] = "miss" /\ xres[p] = "brute"
        /\ inv[p] = FirstCandidates(7)

\* C18: an archive whose lowest accepted candidate is k and whose hash the
\* store did not hold is extracted with exactly k archiver invocations and one
\* row saved; an archive whose hash the store holds is extracted with exactly
\* one invocation.
C18_InvocationCount ==
    \A p \in Urls :
        /\ (xcache[p] = "miss" /\ xres[p] = "brute") =>
                (Len(inv[p]) = LowestOk(arch[Len(remote[p])]) /\ saved[p] = 1)
        /\ (xcache[p] = "accepted" /\ xres[p] = "cached") => Len(inv[p]) = 1

\* rows left in the store by earlier runs
EarlierRows == {i \in 1..Len(store) : store[i][1] = EarlierRow[1]}

RECURSIVE SavedUpTo(_)
SavedUpTo(n) == IF n = 0 THEN 0 ELSE saved[n] + SavedUpTo(n - 1)

\* C19: the extraction of one archive inserts exactly one row if its password
\* was found by brute force and none if it succeeded with the stored password,
\* found no password or failed; the store holds the earlier rows and these.
C19_PersistOnce ==
    /\ \A p \in Urls :
        /\ xres[p] = "brute" => saved[p] = 1
        /\ xres[p] # "brute" => saved[p] = 0
    /\ Len(store) = Cardinality(EarlierRows) + SavedUpTo(NumUrls)

\* C19 witness: one archive was extracted by brute force (one row saved),
\* another with the stored password or with no password found (no row).
C19_Witness ==
    \E p, q \in Urls :
        /\ xres[p] = "brute" /\ saved[p] = 1
        /\ xres[q] \in {"cached", "nopass"} /\ saved[q] = 0
        /\ Len(store) = Cardinality(EarlierRows) + 1

\* C20: when an archive is looked up in the store after another file of the
\* same content and a different name was extracted by brute force, the lookup
\* hits, the archive opens with the stored password and no brute force is run.
C20_CacheKeyedByContent ==
    [][\A q \in Urls :
        (/\ xcache[q] = "none" /\ xcache'[q] # "none"
         /\ \E p \in Urls : /\ p # q
                            /\ xres[p] = "brute"
                            /\ remote[p] = remote[q]
                            /\ local_filename(p) # local_filename(q)) =>
            /\ xcache'[q] = "accepted"
            /\ xres'[q] = "cached"
            /\ Len(inv'[q]) = 1]_vars

\* C20 witness: two files of the same content and different names, the first
\* extracted by brute force, the second with the stored password.
C20_Witness ==
    \E p, q \in Urls :
        /\ p # q /\ remote[p] = remote[q] /\ local_filename(p) # local_filename(q)
        /\ xres[p] = "brute" /\ xcache[q] = "accepted" /\ xres[q] = "cached"

\* the rule of the specification: the name ends with ".part" or ".parte",
\* one or two digits and ".rar"
PartByRule(name) ==
    \E mk \in {<<".", "p", "a", "r", "t">>, <<".", "p", "a", "r", "t", "e">>} :
        \/ \E a \in Digits : EndsWith(name, mk \o <<a>> \o <<".", "r", "a", "r">>)
        \/ \E a \in Digits, b \in Digits : EndsWith(name, mk \o <<a, b>> \o <<".", "r", "a", "r">>)

\* C21: a file that a worker has classified is in the part-file table exactly
\* when its name ends with ".part" or ".parte", one or two digits and ".rar";
\* every other name is standalone and is never put into the table.
C21_Classification ==
    \A u \in Urls : treated[u] # <<>> => (u \in part_files <=> PartByRule(local_filename(u)))

\* the name is that of a volume with index 1, written 1 or 01, in either
\* spelling of the marker
IsIndexOne(name) ==
    \E e \in {<<>>, <<"e">>}, ix \in {<<"1">>, <<"0", "1">>} :
        EndsWith(name, <<".", "p", "a", "r", "t">> \o e \o ix \o <<".", "r", "a", "r">>)

\* the archiver or the store was used for path p
Processed(p) == xres[p] # "none" \/ inv[p] # <<>> \/ xcache[p] # "none"

\* C22: process_part_files works on first volumes only: a path it has handed
\* to the archiver is in the part-file table and names a volume with index 1
\* (part1, part01, parte1, parte01), never index 2, 10, 11, ..., so a set whose
\* first volume is absent is not processed; and once the step is over every
\* first volume of the table, in either padding, has been processed.
C22_FirstVolumeOnly ==
    /\ \A p \in Urls : Processed(p) => p \in part_files /\ IsIndexOne(local_filename(p))
    /\ \A p \in pTodo : p \in part_files /\ IsIndexOne(local_filename(p))
    /\ mpc = "batch" =>
            \A p \in part_files : IsIndexOne(local_filename(p)) => Processed(p)

\* reached: the step is over, a first volume written 01 was extracted and a
\* volume of the table with another index was left alone
C22_Witness ==
    /\ mpc = "batch"
    /\ \E p \in part_files, q \in part_files :
          /\ EndsWith(local_filename(p), <<"0", "1", ".", "r", "a", "r">>)
          /\ xres[p] = "brute"
          /\ ~IsIndexOne(local_filename(q))
          /\ ~Processed(q)

\* C23: with no signal, the failure of one file (a download out of retries,
\* an archiver failure, a failure while extracting or deleting an archive, in
\* a worker or in the part-file step) never ends the run: the main thread is
\* never stopped by an exception.
C23_FailureDoesNotAbort == mpc # "crashed"

\* how often u occurs in the list s
Occurrences(s, u) == Cardinality({i \in DOMAIN s : s[i] = u})

\* C24: the scheduler never retries: a URL is in the list of links still to
\* be sliced, or in the queue, or was dequeued and given one thread, never
\* two of these and never twice; so a URL whose task failed is neither put
\* back into the queue nor started again.
C24_NoSchedulerRetry ==
    \A u \in Urls :
        Occurrences(links, u) + Occurrences(queue, u) + Occurrences(active_threads, u) <= 1

\* reached: the run is over, the download of a URL failed after its retries
\* and the URL was started once
C24_Witness ==
    /\ mpc = "done"
    /\ \E u \in Urls :
          /\ wres[u] = "raised"
          /\ wpc[u] = "dead"
          /\ Occurrences(active_threads, u) = 1

\* handle_tasks has just returned
SchedulerReturned == mpc = "parts"

\* the download of u ended Completed (_download_file returned) or Failed (it
\* raised after its retries) and the thread is gone
Settled(u) == wpc[u] = "dead" /\ wres[u] \in {"ok", "raised"}

\* C25: with no signal, for a batch of all the links and every concurrency
\* limit explored, handle_tasks eventually returns, and when it has returned
\* the queue is empty and every URL of the batch has ended Completed or
\* Failed, with no worker left.
C25_SchedulerReturns ==
    /\ <>SchedulerReturned
    /\ [](SchedulerReturned => queue = <<>> /\ \A u \in Urls : Settled(u))

\* reached: the scheduler has returned from a batch with a Completed and a
\* Failed download
C25_Witness ==
    /\ SchedulerReturned
    /\ \E u \in Urls, v \in Urls : wres[u] = "ok" /\ wres[v] = "raised"

\* the sizes of the files of the URLs in S, added up
RECURSIVE TotalOf(_)
TotalOf(S) ==
    IF S = {} THEN 0
    ELSE LET u == CHOOSE v \in S : TRUE
         IN Len(remote[u]) + TotalOf(S \ {u})

\* the URLs whose download Completed
Completed == {u \in Urls : wpc[u] = "dead" /\ wres[u] = "ok"}

\* C26: when the downloads of a batch have settled, the advances applied to
\* the series task add up to the sizes of the tasks that Completed, for every
\* file size and chunking.
C26_BatchProgressComplete == SchedulerReturned => series = TotalOf(Completed)

\* the threads the scheduler counts are all alive: none has ended since the
\* list was pruned
TasksAllAlive == \A i \in 1..Len(tasks) : is_alive(tasks[i])

\* C27: in both revisions of the scheduler, a fill test made while the stop
\* flag is clear, the queue is not empty and fewer than c threads are running
\* starts another worker: the scheduler does not pass on to wait for a
\* running worker to finish.
C27_Backfill ==
    [][ ( /\ mpc = "fill"
          /\ ~stop
          /\ queue # <<>>
          /\ TasksAllAlive
          /\ Len(tasks) < c )
        => mpc' # "prune" ]_vars

\* the batches of a list, one after the other
RECURSIVE Flatten(_)
Flatten(ss) == IF ss = <<>> THEN <<>> ELSE Head(ss) \o Flatten(Tail(ss))

\* the URLs of the batches before the latest
EarlierBatches ==
    {u \in Urls : \E i \in 1..(Len(sliced) - 1) : \E j \in 1..Len(sliced[i]) : sliced[i][j] = u}

\* the URLs of the latest batch
LatestBatch ==
    IF sliced = <<>> THEN {}
    ELSE {sliced[Len(sliced)][j] : j \in 1..Len(sliced[Len(sliced)])}

\* C28: the batches are consecutive slices of the list of links, none empty
\* and none longer than files_limit, that hold every link once and in list
\* order; and while a download of a batch has been started, every download
\* of the batches before it has ended, their part files have been processed
\* and each of them has been uploaded (with --upload).
C28_BatchesInOrder ==
    /\ Flatten(sliced) \o links = AllLinks
    /\ \A i \in 1..Len(sliced) :
          /\ Len(sliced[i]) >= 1
          /\ files_limit > 0 => Len(sliced[i]) <= files_limit
    /\ \A u \in Urls :
          wpc[u] # "unstarted" /\ u \in LatestBatch =>
              /\ \A v \in EarlierBatches : wpc[v] = "dead"
              /\ mpc \in {"loop", "fill", "get", "prune"} => pTodo = {}
              /\ uploads >= (IF upload THEN Len(sliced) - 1 ELSE 0)
    /\ \A u \in Urls : wpc[u] # "unstarted" => u \in LatestBatch \cup EarlierBatches

\* reached: a download of the second batch runs after the first batch, which
\* held a first volume, was extracted and uploaded
C28_Witness ==
    /\ Len(sliced) = 2
    /\ upload
    /\ uploads = 1
    /\ xres[1] = "brute"
    /\ \E u \in LatestBatch : is_alive(u)

\* the string is start-end, two numbers with start <= end, blanks around it
\* aside; the numbers it names
WellFormed(str) ==
    \E a \in Numerals, b \in Numerals :
        /\ strip(str) = a \o <<"-">> \o b
        /\ int(a) <= int(b)
RangeStart(str) == int(CHOOSE a \in Numerals : \E b \in Numerals : strip(str) = a \o <<"-">> \o b)
RangeEnd(str) == int(CHOOSE b \in Numerals : \E a \in Numerals : strip(str) = a \o <<"-">> \o b)

\* the links at the 1-based positions start..end that exist, in order
RECURSIVE Positions(_, _, _)
Positions(ls, start, end) ==
    IF end < 1 \/ end < start THEN <<>>
    ELSE Positions(ls, start, end - 1)
         \o (IF end <= Len(ls) THEN <<ls[end]>> ELSE <<>>)

\* C29: once --filter has been handled, a well-formed range start-end with
\* start <= end (start 0 included) leaves exactly the links at the 1-based
\* positions start..end that exist, in order, to be downloaded; any other
\* value ends the run with nothing downloaded.
C29_FilterRange ==
    (mpc # "filter" /\ filter_range # <<>>) =>
        IF WellFormed(filter_range)
        THEN Flatten(sliced) \o links
                = Positions(AllLinks, RangeStart(filter_range), RangeEnd(filter_range))
        ELSE mpc = "done" /\ sliced = <<>> /\ queue = <<>>

\* the main thread is inside handle_exit (joins, then cleanup) or the process
\* has ended with exit(0)
InHandlerOrExited == mpc \in {"h_join", "h_cleanup", "h_iter", "exited"}

\* C30: once the signal has set the stop flag, the main thread stays in
\* handle_exit until cleanup_partial_files has run to its end and exit(0)
\* ended the process; it is never ended by an exception, also with a worker
\* that outlives its join timeout.
C30_GracefulExit == stop => InHandlerOrExited

\* the archive at p was extracted and the os.remove that followed failed
DeletionFailed(p) ==
    /\ delete_after
    /\ p \in undeletable
    /\ xres[p] \in {"cached", "brute"}
    /\ exists(p)

\* C31: when delete-after-processing is requested and removing an extracted
\* archive fails (a standalone archive in its worker, a first volume in the
\* part-file step), the failure does not propagate: the run is not ended by it.
C31_DeletionBestEffort == (\E p \in Urls : DeletionFailed(p)) => mpc # "crashed"

\* worker u has made no request in this invocation and tracks no download
Untouched(u) ==
    /\ nAttempts[u] = 0
    /\ failures[u] = 0
    /\ wres[u] = "none"
    /\ u \notin DOMAIN active_downloads

\* C32: a worker that obtains its permit with the stop flag set goes straight
\* to its return: it makes no HTTP request, creates or writes no file and adds
\* no entry to the in-flight table, and its next step gives the permit back.
C32_StopBeforeNewWork ==
    [][\A u \in Urls :
        /\ (wpc[u] = "acquire" /\ wpc'[u] \notin {"acquire", "killed"} /\ stop)
                => /\ wpc'[u] = "release"
                   /\ Untouched(u) /\ Untouched(u)'
                   /\ disk' = disk /\ faults' = faults
                   /\ sem' = sem - 1
        /\ (wpc[u] = "release" /\ Untouched(u) /\ wpc'[u] \notin {"release", "killed"})
                => /\ wpc'[u] = "dead"
                   /\ Untouched(u)'
                   /\ disk' = disk /\ faults' = faults
                   /\ sem' = sem + 1]_vars

\* a worker that found the flag set has ended and every permit is back
C32_Witness ==
    \E u \in Urls :
        /\ stop
        /\ wpc[u] = "dead"
        /\ Untouched(u)
        /\ disk[u] = disk0[u]
        /\ sem = simultaneous_downloads

\* C33: with the stop flag set no transfer begins another attempt: a transfer
\* that has made an attempt which failed (or that is in its backoff wait) ends
\* without a new request, so its count of attempts begun never grows again.
C33_NoRetryAfterStop ==
    [][\A u \in Urls :
        (stop /\ stop' /\ nAttempts[u] >= 1) => nAttempts'[u] <= nAttempts[u]]_vars

\* the part-pattern files of the latest batch whose transfer returned
ReturnedParts ==
    {u \in LatestBatch : is_parted(local_filename(u)) /\ wres[u] \in {"ok", "cancel"}}

\* C34: no store into the part-file table is lost: at any moment the table
\* holds only part-pattern files of the batch whose transfer has returned, and
\* when the downloads of the batch have settled it holds every one of them,
\* whatever the interleaving of the workers.
C34_NoLostPartFile ==
    /\ part_files \subseteq ReturnedParts
    /\ SchedulerReturned => part_files = ReturnedParts

\* reached: two workers ran side by side and both their part files are in the
\* table when the scheduler returns
C34_Witness ==
    /\ SchedulerReturned
    /\ simultaneous_downloads = MaxConc
    /\ Cardinality(part_files) >= 2

\* the workers that hold a permit: past semaphore.acquire() and not yet past
\* semaphore.release()
Holders ==
    {u \in Urls : wpc[u] \in {"head", "attempt", "open", "stream", "route",
                               "extract", "brute", "pop", "release"}}

\* C35: permits are conserved while the process runs: the free permits plus
\* the workers holding one are always the configured limit, whichever way each
\* worker left (download completed, download failed, extraction error,
\* cancellation, flag seen before starting); so when no worker holds one, as
\* when the next batch is sliced, all c permits are free.
C35_PermitsConserved ==
    ProcessAlive =>
        /\ sem + Cardinality(Holders) = simultaneous_downloads
        /\ (mpc = "batch" => sem = simultaneous_downloads)

\* reached: the second batch is about to be sliced after a batch whose
\* download failed, with every permit back
C35_Witness ==
    /\ mpc = "batch"
    /\ Len(sliced) = 1
    /\ links # <<>>
    /\ wpc[1] = "dead" /\ wres[1] = "raised"
    /\ sem = simultaneous_downloads

\* C36: cleanup_partial_files is not disturbed by workers that are still
\* running: no step of its iteration over the in-flight table ends in an
\* exception, and when it ends every entry the table held when the iteration
\* began has been visited and the table is empty.
C36_CleanupSafeWithLiveWorkers ==
    [][mpc = "h_iter" =>
        /\ mpc' # "crashed"
        /\ mpc' = "exited" => (clTodo = {} /\ active_downloads' = <<>>)]_vars

\* the name's tail from position k + 1 on is a volume suffix: the marker, one
\* or two index digits and ".rar"
IsVolumeSuffix(rest) ==
    \E e \in {<<>>, <<"e">>}, nd \in IndexLengths :
        /\ Len(rest) = 5 + Len(e) + nd + 4
        /\ SubSeq(rest, 1, 5 + Len(e)) = <<".", "p", "a", "r", "t">> \o e
        /\ \A i \in (5 + Len(e) + 1)..(5 + Len(e) + nd) : rest[i] \in Digits
        /\ SubSeq(rest, Len(rest) - 3, Len(rest)) = <<".", "r", "a", "r">>

\* the URLs of the list whose files are volumes of the archive p belongs to:
\* the same name up to the volume suffix
VolumesOf(p) ==
    {v \in Urls :
        \E k \in 0..Len(fname[p]) :
            /\ k <= Len(fname[v])
            /\ SubSeq(fname[p], 1, k) = SubSeq(fname[v], 1, k)
            /\ IsVolumeSuffix(SubSeq(fname[p], k + 1, Len(fname[p])))
            /\ IsVolumeSuffix(SubSeq(fname[v], k + 1, Len(fname[v])))}

\* C37: while the process runs, a first volume has been handed to the
\* extraction only when every volume of its archive that is in the URL list
\* has finished downloading, also when files_limit puts the volumes in
\* different batches.
C37_ExtractAfterAllVolumes ==
    \A p \in Urls :
        (ProcessAlive /\ Processed(p) /\ is_parted(local_filename(p)))
            => \A v \in VolumesOf(p) : wpc[v] = "dead"

\* the rows of the store saved for content hash h
RowsFor(h) == {i \in 1..Len(store) : store[i][2] = h}

\* C38: the store never holds two rows for the same content hash, whatever
\* extractions were made (a stored password rejected and the brute force
\* succeeding, two workers extracting archives of the same content at once).
C38_OneRowPerHash == \A i \in 1..Len(store) : Cardinality(RowsFor(store[i][2])) = 1

\* the destination path of u holds the complete file
HoldsComplete(u) == remote[u] # <<>> /\ disk[u] = remote[u]

\* C39: a request made while the destination path holds the complete file,
\* with no network fault, is not answered by an error and brings nothing to
\* append: the transfer ends in success and the file keeps its content.
C39_CompleteFileKept ==
    [][\A u \in Urls :
        (/\ wpc[u] = "attempt" /\ HoldsComplete(u)
         /\ nAttempts'[u] = nAttempts[u] + 1
         /\ faults' = faults)
            => /\ failures'[u] = failures[u]
               /\ body'[u] = <<>>]_vars

====
